---- MODULE Spec2Model ----
(***************************************************************************)
(* A model of the blkid wrapper crate: the translation of native return    *)
(* codes and pointers into results, the ownership of native handles, the   *)
(* probing session of a Prober and the enumeration of a partition list.    *)
(*                                                                         *)
(* The native library is the environment.  Its return values are inputs    *)
(* drawn from small sets; where the wrapper's documentation in the source  *)
(* states what the library does (probing position, collision check), the   *)
(* model follows that documentation.                                       *)
(***************************************************************************)
EXTENDS Integers, Sequences, FiniteSets, TLC

VARIABLES
    call,       \* translation: the operation invoked and the raw native return
    ret,        \* translation: the wrapper's result for `call`, or NoRet
    acquired,   \* lifetime: handle -> the native library handed it out
    released,   \* lifetime: handle -> number of native release calls on it
    owners,     \* lifetime: the live wrapper objects
    nextH,      \* lifetime: the next fresh native handle
    panicked,   \* lifetime: an assertion failed, the stack is unwinding
    outcome,    \* lifetime: what the last constructor / drop did
    sigs,       \* probing: the probing functions that detect a signature
    enabled,    \* probing: the enabled chains
    pos,        \* probing: index of the probing function called last, 0 = start
    values,     \* probing: the probing functions whose result is stored
    last,       \* probing: the last operation and its result
    run,        \* probing: functions reported by do_probe since the last reset
    clean,      \* probing: only do_probe was called since the last reset_probe
    safeOk,     \* probing: do_safe_probe Success results so far
    nparts,     \* partitions: what blkid_partlist_numof_partitions returns
    ptab,       \* partitions: the native partitions, by index
    failAt,     \* partitions: index at which blkid_partlist_get_partition fails
    pc,         \* partitions: position of get_partitions
    numof,      \* partitions: get_partitions' local `numof`
    part_num,   \* partitions: get_partitions' loop variable
    partitions, \* partitions: get_partitions' vector
    gp_ret,     \* partitions: get_partitions' result
    ncalls,     \* partitions: native calls issued by get_partitions
    pvals,      \* values: the native probing result, a list of (name, data)
    vfailAt,    \* values: index at which blkid_probe_get_value fails
    vimpl,      \* values: the wrapper whose get_values_map runs
    vpc,        \* values: position of get_values_map
    numof_values, \* values: get_values_map's local `numof_values`
    vi,         \* values: get_values_map's loop variable `i`
    map,        \* values: get_values_map's map
    gvm_ret,    \* values: get_values_map's result
    vcalls,     \* values: native calls issued by get_values_map
    held,       \* views: the non-owning views (PartList, Dev, ...) the program holds
    gen,        \* views: retrieval kind -> successful retrievals on the Prober so far
    read,       \* views: the last accessor executed on a view
    entries,    \* cache: the device entries of the Cache, by name, in list order
    scall,      \* cache: the last operation taking string arguments
    tagName,    \* tags: the name given to TagType::from
    tagType,    \* tags: the TagType it returned
    trip,       \* tags: a TagType displayed and parsed back
    conv,       \* text: the last operation returning text from a foreign buffer
    gtype,      \* text: a call of PartTable::get_type, its native buffer and result
    hidden,     \* wipe: the signatures a dry run has wiped in the buffers only
    wl,         \* wipe: the caller's position in the wipe loop
    device,     \* setting: the assigned device (fd, offset, size)
    chflags,    \* setting: chain -> its probing flags
    filter,     \* setting: chain -> the probing functions its filter excludes
    iteration   \* iterators: a Devs or Tags iterator in a for loop

retVars  == <<call, ret>>
lifeVars == <<acquired, released, owners, nextH, panicked, outcome>>
probeVars == <<sigs, enabled, pos, values, last, run, clean, safeOk>>
partVars == <<nparts, ptab, failAt, pc, numof, part_num, partitions, gp_ret, ncalls>>
valsVars == <<pvals, vfailAt, vimpl, vpc, numof_values, vi, map, gvm_ret, vcalls>>
viewVars == <<held, gen, read>>
cacheVars == <<entries, scall>>
tagVars == <<tagName, tagType, trip>>
textVars == <<conv, gtype>>
wipeVars == <<hidden, wl>>
confVars == <<device, chflags, filter>>
iterVars == <<iteration>>
vars == <<retVars, lifeVars, probeVars, partVars, valsVars, viewVars, cacheVars,
          tagVars, textVars, wipeVars,
             confVars, iterVars>>

\* everything but one part of the state
offRet   == <<lifeVars, probeVars, partVars, valsVars, viewVars, cacheVars,
             tagVars, textVars, wipeVars,
             confVars, iterVars>>
offLife  == <<retVars, probeVars, partVars, valsVars, viewVars, cacheVars,
             tagVars, textVars, wipeVars,
             confVars, iterVars>>
offProbe == <<retVars, lifeVars, partVars, valsVars, viewVars, cacheVars,
             tagVars, textVars, wipeVars,
             confVars, iterVars>>
offPart  == <<retVars, lifeVars, probeVars, valsVars, viewVars, cacheVars,
             tagVars, textVars, wipeVars,
             confVars, iterVars>>
offVals  == <<retVars, lifeVars, probeVars, partVars, viewVars, cacheVars,
             tagVars, textVars, wipeVars,
             confVars, iterVars>>
offView  == <<retVars, probeVars, partVars, valsVars, tagVars, textVars,
             wipeVars,
             confVars, iterVars>>

----------------------------------------------------------------------------
(* Results.  A result is Ok or Err; `kind` names the type of the payload    *)
(* (or the error variant), `val` a symbolic payload, `code` an integer one. *)

NULL == 0

Ok(kind, val)    == [tag |-> "Ok",  kind |-> kind, val |-> val, code |-> 0]
OkInt(kind, n)   == [tag |-> "Ok",  kind |-> kind, val |-> "",  code |-> n]
Err(kind)        == [tag |-> "Err", kind |-> kind, val |-> "",  code |-> 0]
ErrCode(kind, n) == [tag |-> "Err", kind |-> kind, val |-> "",  code |-> n]
Panic            == [tag |-> "Panic", kind |-> "assert_ne", val |-> "", code |-> 0]
NoRet            == [tag |-> "None", kind |-> "", val |-> "", code |-> 0]

BoolStr(b) == IF b THEN "true" ELSE "false"

\* error.rs: result
result(val) ==
    IF val = 0 THEN Ok("Unit", "") ELSE ErrCode("LibBlkid", val)

\* error.rs: result_ptr_mut
error_result_ptr_mut(val) ==
    IF val = NULL THEN Err("LibBlkidNull") ELSE OkInt("Ptr", val)

\* lib.rs: result_ptr_mut, used by BlkId::new
result_ptr_mut_null_ok(val) == OkInt("Ptr", val)
result_ptr_mut(val) ==
    IF val = NULL
    THEN [tag |-> "Err", kind |-> "Error", val |-> "Blkid returned NULL", code |-> 0]
    ELSE OkInt("Ptr", val)

\* error::c_result on an integer: a negative value is an error
c_result_int(val) ==
    IF val < 0 THEN ErrCode("LibBlkid", val) ELSE OkInt("Int", val)

\* error::c_result on a pointer: null is an error
c_result_ptr(val) ==
    IF val = NULL THEN Err("LibBlkidNull") ELSE OkInt("Ptr", val)

----------------------------------------------------------------------------
(* The wrapper operations as functions of the raw native return value.     *)

MapOk(r, kind, val) == IF r.tag = "Err" THEN r ELSE Ok(kind, val)

\* prober.rs: Prober::do_probe
Prober_do_probe_swapped(ret_code) ==
    CASE ret_code = 0 -> Ok("ProbeState", "Done")
      [] ret_code = 1 -> Ok("ProbeState", "Success")
      [] OTHER        -> Err("Io")
Prober_do_probe(ret_code) ==
    CASE ret_code = 0 -> Ok("ProbeState", "Success")
      [] ret_code = 1 -> Ok("ProbeState", "Done")
      [] OTHER        -> Err("Io")

\* prober.rs: Prober::do_safe_probe
Prober_do_safe_probe_swapped(ret_code) ==
    CASE ret_code = 0  -> Ok("ProbeState", "NothingDetected")
      [] ret_code = 1  -> Ok("ProbeState", "Success")
      [] ret_code = -2 -> Ok("ProbeState", "Ambivalent")
      [] OTHER         -> Err("Io")
Prober_do_safe_probe(ret_code) ==
    CASE ret_code = 0  -> Ok("ProbeState", "Success")
      [] ret_code = 1  -> Ok("ProbeState", "NothingDetected")
      [] ret_code = -2 -> Ok("ProbeState", "Ambivalent")
      [] OTHER         -> Err("Io")

\* prober.rs: Prober::do_full_probe
Prober_do_full_probe(ret_code) ==
    CASE ret_code = 0 -> Ok("ProbeState", "Success")
      [] ret_code = 1 -> Ok("ProbeState", "NothingDetected")
      [] OTHER        -> Err("Io")

Prober_do_wipe_unchecked(ret_code) == Ok("ProbeState", "Success")

\* prober.rs: Prober::do_wipe
Prober_do_wipe(ret_code) ==
    CASE ret_code = 0 -> Ok("ProbeState", "Success")
      [] ret_code = 1 -> Ok("ProbeState", "Done")
      [] OTHER        -> Err("Io")

\* prober.rs: Prober::has_value
Prober_has_value(ret_code) ==
    MapOk(c_result_int(ret_code), "Bool", BoolStr(ret_code = 1))

\* prober.rs: Prober::known_fstype
Prober_known_fstype(ret_code) == Ok("Bool", BoolStr(ret_code = 1))

\* prober.rs: Prober::numof_values
Prober_numof_values(ret_code) == c_result_int(ret_code)

\* prober.rs: Prober::is_wholedisk (a plain bool, no Result)
Prober_is_wholedisk(ret_code) == Ok("Bool", BoolStr(ret_code = 1))

\* prober.rs: Prober::step_back
Prober_step_back(ret_code) == MapOk(c_result_int(ret_code), "Unit", "")

\* prober.rs: Prober::part_list
Prober_part_list(ptr) == c_result_ptr(ptr)

\* prober.rs: Prober::topology
Prober_topology(ptr) == c_result_ptr(ptr)

\* cache.rs: Cache::probe_all
Cache_probe_all(ret_code) == MapOk(c_result_int(ret_code), "Unit", "")

\* cache.rs: Cache::get_dev
Cache_get_dev_null_ok(ptr) == OkInt("Ptr", ptr)
Cache_get_dev(ptr) == c_result_ptr(ptr)

\* cache.rs: Cache::find_dev_with_tag
Cache_find_dev_with_tag(ptr) ==
    IF ptr = NULL THEN Ok("Option", "None") ELSE OkInt("Option", ptr)

\* cache.rs: Cache::find_tag_value
Cache_find_tag_value(ptr) ==
    IF ptr = NULL THEN Ok("Option", "None") ELSE OkInt("Option", ptr)

\* part_list.rs: PartList::get_partition
PartList_get_partition(ptr) == c_result_ptr(ptr)

\* part_list.rs: PartList::get_table (a plain Option, no Result)
PartList_get_table(ptr) ==
    IF ptr = NULL THEN Ok("Option", "None") ELSE OkInt("Option", ptr)

\* part_list.rs: PartList::numof_partitions
PartList_numof_partitions(ret_code) == c_result_int(ret_code)

Devs_next_inverted(ret_code) ==
    IF ret_code = 0 THEN Ok("Option", "None") ELSE Ok("Option", "Some")

\* dev.rs: Devs::next (a plain Option, no Result)
Devs_next(ret_code) ==
    IF ret_code = 0 THEN Ok("Option", "Some") ELSE Ok("Option", "None")

\* dev.rs: Dev::verify (a plain bool, no Result)
Dev_verify(ptr) == Ok("Bool", BoolStr(ptr # NULL))

\* lib.rs: BlkId::do_probe
BlkId_do_probe(ret_code) ==
    IF ret_code < 0 THEN Err("Error") ELSE OkInt("RawCode", ret_code)

\* lib.rs: BlkId::do_safe_probe
BlkId_do_safe_probe(ret_code) ==
    IF ret_code = -1 THEN Err("Error") ELSE OkInt("RawCode", ret_code)

\* lib.rs: BlkId::has_value
BlkId_has_value(ret_code) ==
    CASE ret_code < 0 -> Err("Error")
      [] ret_code = 0 -> Ok("Bool", "false")
      [] ret_code = 1 -> Ok("Bool", "true")
      [] OTHER        -> Err("Error")

\* lib.rs: BlkId::numof_values
BlkId_numof_values(ret_code) ==
    IF ret_code < 0 THEN Err("Error") ELSE OkInt("Int", ret_code)

\* lib.rs: BlkId::known_fstype
BlkId_known_fstype(ret_code) ==
    CASE ret_code = 0 -> Ok("Bool", "false")
      [] ret_code = 1 -> Ok("Bool", "true")
      [] OTHER        -> Err("Error")

\* lib.rs: BlkId::get_topology
BlkId_get_topology(ptr) == OkInt("Ptr", ptr)

\* The operations that receive a pointer, resp. a status or count.
PtrOps == {"error::result_ptr_mut", "Prober::part_list", "Prober::topology", "Cache::get_dev",
           "Cache::find_dev_with_tag", "Cache::find_tag_value",
           "PartList::get_partition", "PartList::get_table", "Dev::verify",
           "BlkId::get_topology"}
IntOps == {"error::result", "Prober::do_probe", "Prober::do_safe_probe", "Prober::do_full_probe",
           "Prober::do_wipe", "Prober::has_value", "Prober::known_fstype",
           "Prober::numof_values", "Prober::is_wholedisk", "Prober::step_back",
           "Cache::probe_all", "PartList::numof_partitions", "Devs::next",
           "BlkId::do_probe", "BlkId::do_safe_probe", "BlkId::has_value",
           "BlkId::numof_values", "BlkId::known_fstype"}

\* The operations whose native return is a tri-state or sentinel status
\* (not a count).
StatusOps == {"error::result", "Prober::do_probe", "Prober::do_safe_probe", "Prober::do_full_probe",
              "Prober::do_wipe", "Prober::has_value", "Prober::known_fstype",
              "Prober::is_wholedisk", "Prober::step_back", "Cache::probe_all",
              "Devs::next", "BlkId::do_probe", "BlkId::do_safe_probe",
              "BlkId::has_value", "BlkId::known_fstype"}

Translate(op, raw) ==
    CASE op = "error::result"              -> result(raw)
      [] op = "error::result_ptr_mut"      -> error_result_ptr_mut(raw)
      [] op = "Prober::do_probe"           -> Prober_do_probe(raw)
      [] op = "Prober::do_safe_probe"      -> Prober_do_safe_probe(raw)
      [] op = "Prober::do_full_probe"      -> Prober_do_full_probe(raw)
      [] op = "Prober::do_wipe"            -> Prober_do_wipe(raw)
      [] op = "Prober::has_value"          -> Prober_has_value(raw)
      [] op = "Prober::known_fstype"       -> Prober_known_fstype(raw)
      [] op = "Prober::numof_values"       -> Prober_numof_values(raw)
      [] op = "Prober::is_wholedisk"       -> Prober_is_wholedisk(raw)
      [] op = "Prober::step_back"          -> Prober_step_back(raw)
      [] op = "Prober::part_list"          -> Prober_part_list(raw)
      [] op = "Prober::topology"           -> Prober_topology(raw)
      [] op = "Cache::probe_all"           -> Cache_probe_all(raw)
      [] op = "Cache::get_dev"             -> Cache_get_dev(raw)
      [] op = "Cache::find_dev_with_tag"   -> Cache_find_dev_with_tag(raw)
      [] op = "Cache::find_tag_value"      -> Cache_find_tag_value(raw)
      [] op = "PartList::get_partition"    -> PartList_get_partition(raw)
      [] op = "PartList::get_table"        -> PartList_get_table(raw)
      [] op = "PartList::numof_partitions" -> PartList_numof_partitions(raw)
      [] op = "Devs::next"                 -> Devs_next(raw)
      [] op = "Dev::verify"                -> Dev_verify(raw)
      [] op = "BlkId::do_probe"            -> BlkId_do_probe(raw)
      [] op = "BlkId::do_safe_probe"       -> BlkId_do_safe_probe(raw)
      [] op = "BlkId::has_value"           -> BlkId_has_value(raw)
      [] op = "BlkId::numof_values"        -> BlkId_numof_values(raw)
      [] op = "BlkId::known_fstype"        -> BlkId_known_fstype(raw)
      [] op = "BlkId::get_topology"        -> BlkId_get_topology(raw)

\* Bounds of the native return values drawn as inputs.
MaxCode == 3
MaxPtr == 2
RetCodes == (0 - MaxCode)..MaxCode
Ptrs == NULL..MaxPtr
Calls == {[op |-> o, raw |-> r] : o \in IntOps, r \in RetCodes}
           \cup {[op |-> o, raw |-> p] : o \in PtrOps, p \in Ptrs}

----------------------------------------------------------------------------
(* The parts of the state a specification does not use stay at these.      *)

RetIdle == call = [op |-> "none", raw |-> 0] /\ ret = NoRet

LifeIdle ==
    /\ acquired = {} /\ released = [h \in {} |-> 0] /\ owners = {}
    /\ nextH = 1 /\ panicked = FALSE
    /\ outcome = [op |-> "none", res |-> NoRet, failed |-> FALSE, path |-> "",
                  acq |-> NULL, h |-> NULL]

WipeIdle == hidden = {} /\ wl = "none"

NoDevice == [fd |-> -1, offset |-> 0, size |-> 0]

ConfIdle ==
    /\ device = NoDevice
    /\ chflags = [c \in {"superblocks", "partitions"} |-> 0]
    /\ filter = [c \in {"superblocks", "partitions"} |-> {}]

ProbeIdle ==
    /\ sigs = {} /\ enabled = {} /\ pos = 0 /\ values = {}
    /\ last = [op |-> "none", res |-> NoRet, from |-> 0, prev |-> "none", io |-> TRUE]
    /\ run = <<>> /\ clean = FALSE /\ safeOk = 0
    /\ WipeIdle /\ ConfIdle

PartIdle ==
    /\ nparts = 0 /\ ptab = <<>> /\ failAt = -1 /\ pc = "idle" /\ numof = 0
    /\ part_num = 0 /\ partitions = <<>> /\ gp_ret = NoRet /\ ncalls = <<>>

ValsIdle ==
    /\ pvals = <<>> /\ vfailAt = -2 /\ vimpl = "none" /\ vpc = "idle"
    /\ numof_values = 0 /\ vi = 0 /\ map = <<>> /\ gvm_ret = NoRet
    /\ vcalls = <<>>

\* the parts of the state that only the later specifications use
Retrievals == {"part_list", "topology"}

NoRead == [kind |-> "none", op |-> "none", live |-> TRUE, current |-> TRUE]

ViewIdle == held = {} /\ gen = [k \in Retrievals |-> 0] /\ read = NoRead

NoCall == [op |-> "none", s1 |-> "", s2 |-> "", flags |-> 0, res |-> NoRet,
           text |-> <<>>, native |-> <<>>, before |-> <<>>]

CacheIdle == entries = <<>> /\ scall = NoCall

NoTag == [kind |-> "none", tag |-> <<>>, name |-> <<>>]

NoTrip == [pc |-> "none", t |-> NoTag, s |-> <<>>, back |-> NoTag]

TagIdle == tagName = <<>> /\ tagType = NoTag /\ trip = NoTrip

NoConv == [op |-> "none", native |-> FALSE, res |-> NoRet, name |-> NoTag,
           texts |-> <<>>]

NoType == [pc |-> "none", ptr |-> NULL, buf |-> <<>>, res |-> NoRet]

TextIdle == conv = NoConv /\ gtype = NoType

NoIteration == [kind |-> "none", cursor |-> 0, items |-> <<>>, item |-> "none"]

IterIdle == iteration = NoIteration

RestIdle == ValsIdle /\ ViewIdle /\ CacheIdle /\ TagIdle /\ TextIdle /\ IterIdle

----------------------------------------------------------------------------
(* Specification SpecRet: a wrapper operation is applied to a raw native   *)
(* return value.                                                           *)

InitRet ==
    call \in Calls /\ ret = NoRet /\ LifeIdle /\ ProbeIdle /\ PartIdle /\ RestIdle

\* the wrapper translates the native return of the pending call
Apply ==
    /\ ret = NoRet
    /\ ret' = Translate(call.op, call.raw)
    /\ UNCHANGED <<call, offRet>>

\* the caller takes the result and issues another call
Return ==
    /\ ret # NoRet
    /\ call' \in Calls
    /\ ret' = NoRet
    /\ UNCHANGED offRet

NextRet == Apply \/ Return

SpecRet == InitRet /\ [][NextRet]_vars

NativeFailed ==
    \/ call.op \in IntOps /\ call.raw < 0
    \/ call.op \in PtrOps /\ call.raw = NULL

\* C2 (as claimed): a negative integer or a null pointer from the native call
\* makes every wrapper operation return an error result.
C2_NegativeOrNullIsError ==
    (ret # NoRet /\ NativeFailed) => ret.tag = "Err"

\* C3 (as claimed): no operation whose native return is a status hands that raw
\* integer to the caller as its success value.
C3_NoRawCodeInOk ==
    (ret # NoRet /\ call.op \in StatusOps) =>
        ~(ret.tag = "Ok" /\ ret.kind \in {"RawCode", "Int"})

\* C6: Prober::do_safe_probe maps 0 to Success, 1 to NothingDetected, -2 to
\* Ambivalent and every other code to an error; it never returns Done.
C6_SafeProbeMapping ==
    (ret # NoRet /\ call.op = "Prober::do_safe_probe") =>
        /\ call.raw = 0  => ret = Ok("ProbeState", "Success")
        /\ call.raw = 1  => ret = Ok("ProbeState", "NothingDetected")
        /\ call.raw = -2 => ret = Ok("ProbeState", "Ambivalent")
        /\ call.raw \notin {0, 1, -2} => ret.tag = "Err"
        /\ ret.tag = "Ok" =>
               ret.val \in {"Success", "NothingDetected", "Ambivalent"}

C6_Witness ==
    /\ call = [op |-> "Prober::do_safe_probe", raw |-> -2]
    /\ ret = Ok("ProbeState", "Ambivalent")

----------------------------------------------------------------------------
(* Specification SpecLife: owning wrappers are constructed, used and       *)
(* dropped.  A native handle is a number; NULL is 0.  The native library   *)
(* hands out fresh handles and fails (NULL, negative code) when the path   *)
(* does not exist or nothing can be allocated.                             *)

MaxHandles == 3
Handles == 1..MaxHandles

Paths == {"/dev/sda", "/nonexistent", "nul"}
Existing == {"/dev/sda"}
\* CString::new fails on an interior NUL byte
HasNul(path) == path = "nul"

\* the native allocation: a fresh handle, or NULL
Alloc(ok) == IF ok /\ nextH <= MaxHandles THEN nextH ELSE NULL

\* blkid_new_probe_from_filename: NULL when the file cannot be opened
NativeOpen(path, ok) == IF path \in Existing THEN Alloc(ok) ELSE NULL

WithHandle(r, kind, h) == IF r.tag = "Err" THEN r ELSE OkInt(kind, h)

\* lib::path_to_cstring
path_to_cstring(path) == IF HasNul(path) THEN Err("Nul") ELSE Ok("CString", path)

\* cache.rs: Cache::new; rc is blkid_get_cache's return, cache its out pointer
Cache_new(rc, cache) == WithHandle(c_result_int(rc), "Cache", cache)

\* cache.rs: Cache::new_by_path
Cache_new_by_path(path, rc, cache) ==
    IF path_to_cstring(path).tag = "Err" THEN path_to_cstring(path)
    ELSE WithHandle(c_result_int(rc), "Cache", cache)

\* prober.rs: Prober::new
Prober_new(probe) == WithHandle(c_result_ptr(probe), "Prober", probe)

\* prober.rs: Prober::new_from_filename
Prober_new_from_filename(path, probe) ==
    IF path_to_cstring(path).tag = "Err" THEN path_to_cstring(path)
    ELSE WithHandle(c_result_ptr(probe), "Prober", probe)

\* lib.rs: BlkId::new
BlkId_new(path, probe) ==
    IF HasNul(path) THEN Err("Nul")
    ELSE WithHandle(result_ptr_mut(probe), "BlkId", probe)

\* dev.rs: Devs::new
Devs_new(iter) == IF iter = NULL THEN Panic ELSE OkInt("Devs", iter)

\* tag.rs: Tags::new
Tags_new(iter) == IF iter = NULL THEN Panic ELSE OkInt("Tags", iter)

\* one call of a native release function on handle h
Release(h) == [released EXCEPT ![h] = @ + 1]

\* cache.rs: Drop for Cache
Cache_drop(w) == Release(w.h)

\* prober.rs: Drop for Prober
Prober_drop(w) == Release(w.h)

\* lib.rs: Drop for BlkId
BlkId_drop(w) == IF w.h = NULL THEN released ELSE Release(w.h)

\* dev.rs: Drop for Devs
Devs_drop_forgets(w) == released
Devs_drop(w) == Release(w.h)

\* tag.rs: Drop for Tags
Tags_drop(w) == Release(w.h)

InitLife ==
    /\ acquired = {}
    /\ released = [h \in {NULL} \cup Handles |-> 0]
    /\ owners = {}
    /\ nextH = 1
    /\ panicked = FALSE
    /\ outcome = [op |-> "none", res |-> NoRet, failed |-> FALSE, path |-> "",
                  acq |-> NULL, h |-> NULL]
    /\ RetIdle /\ ProbeIdle /\ PartIdle /\ RestIdle

\* What a constructor leaves behind: `got` is the handle the native call handed
\* out (NULL if none, or if it was not called), res the constructor's result.
Constructed(op, kind, path, got, failed, res, parent) ==
    /\ acquired' = IF got # NULL THEN acquired \cup {got} ELSE acquired
    /\ nextH' = IF got # NULL THEN nextH + 1 ELSE nextH
    /\ owners' = IF res.tag = "Ok"
                 THEN owners \cup {[kind |-> kind, h |-> res.code, parent |-> parent]}
                 ELSE owners
    /\ panicked' = (res.tag = "Panic")
    /\ outcome' = [op |-> op, res |-> res, failed |-> failed, path |-> path,
                   acq |-> got, h |-> IF res.tag = "Ok" THEN res.code ELSE NULL]
    /\ UNCHANGED released

CacheNew ==
    \E ok \in BOOLEAN :
        LET cache == Alloc(ok)
            rc == IF cache = NULL THEN -1 ELSE 0
        IN  /\ ~panicked
            /\ Constructed("Cache::new", "Cache", "", cache, cache = NULL,
                           Cache_new(rc, cache), NULL)
            /\ UNCHANGED offLife

CacheNewByPath ==
    \E path \in Paths, ok \in BOOLEAN :
        LET called == path_to_cstring(path).tag = "Ok"
            cache == IF called THEN Alloc(ok) ELSE NULL
            rc == IF cache = NULL THEN -1 ELSE 0
        IN  /\ ~panicked
            /\ Constructed("Cache::new_by_path", "Cache", path, cache,
                           called /\ cache = NULL,
                           Cache_new_by_path(path, rc, cache), NULL)
            /\ UNCHANGED offLife

ProberNew ==
    \E ok \in BOOLEAN :
        LET probe == Alloc(ok)
        IN  /\ ~panicked
            /\ Constructed("Prober::new", "Prober", "", probe, probe = NULL,
                           Prober_new(probe), NULL)
            /\ UNCHANGED offLife

ProberNewFromFilename ==
    \E path \in Paths, ok \in BOOLEAN :
        LET called == path_to_cstring(path).tag = "Ok"
            probe == IF called THEN NativeOpen(path, ok) ELSE NULL
        IN  /\ ~panicked
            /\ Constructed("Prober::new_from_filename", "Prober", path, probe,
                           called /\ probe = NULL,
                           Prober_new_from_filename(path, probe), NULL)
            /\ UNCHANGED offLife

BlkIdNew ==
    \E path \in Paths, ok \in BOOLEAN :
        LET called == ~HasNul(path)
            probe == IF called THEN NativeOpen(path, ok) ELSE NULL
        IN  /\ ~panicked
            /\ Constructed("BlkId::new", "BlkId", path, probe,
                           called /\ probe = NULL, BlkId_new(path, probe), NULL)
            /\ UNCHANGED offLife

\* Cache::devs on a live Cache
DevsNew ==
    \E c \in owners, ok \in BOOLEAN :
        LET iter == Alloc(ok)
        IN  /\ ~panicked
            /\ c.kind = "Cache"
            /\ Constructed("Devs::new", "Devs", "", iter, iter = NULL,
                           Devs_new(iter), c.h)
            /\ UNCHANGED offLife

\* Dev::tags on a Dev of a live Cache
TagsNew ==
    \E c \in owners, ok \in BOOLEAN :
        LET iter == Alloc(ok)
        IN  /\ ~panicked
            /\ c.kind = "Cache"
            /\ Constructed("Tags::new", "Tags", "", iter, iter = NULL,
                           Tags_new(iter), c.h)
            /\ UNCHANGED offLife

\* a method is called on a live wrapper; ownership does not change
Use ==
    \E w \in owners :
        /\ ~panicked
        /\ outcome' = [op |-> "use", res |-> Ok("Unit", ""), failed |-> FALSE,
                       path |-> "", acq |-> NULL, h |-> w.h]
        /\ UNCHANGED <<acquired, released, owners, nextH, panicked,
                       offLife>>

\* a wrapper goes out of scope (also while a panic unwinds)
Drop ==
    \E w \in owners :
        /\ released' = CASE w.kind = "Cache"  -> Cache_drop(w)
                         [] w.kind = "Prober" -> Prober_drop(w)
                         [] w.kind = "BlkId"  -> BlkId_drop(w)
                         [] w.kind = "Devs"   -> Devs_drop(w)
                         [] w.kind = "Tags"   -> Tags_drop(w)
        /\ owners' = owners \ {w}
        /\ outcome' = [op |-> "drop", res |-> Ok("Unit", ""), failed |-> FALSE,
                       path |-> "", acq |-> NULL, h |-> w.h]
        /\ UNCHANGED <<acquired, nextH, panicked, offLife>>

NextLife ==
    \/ CacheNew \/ CacheNewByPath \/ ProberNew \/ ProberNewFromFilename
    \/ BlkIdNew \/ DevsNew \/ TagsNew \/ Use \/ Drop

SpecLife == InitLife /\ [][NextLife]_vars

OwnersOf(h) == {w \in owners : w.h = h}

\* C1: the native release function is called exactly once for each acquired
\* handle (when its wrapper leaves scope) and never for a handle that was not
\* acquired or was already released.
C1_SingleRelease ==
    \A h \in {NULL} \cup Handles :
        /\ released[h] <= 1
        /\ released[h] >= 1 => h \in acquired
        /\ Cardinality(OwnersOf(h)) <= 1
        /\ OwnersOf(h) # {} => h \in acquired
        /\ h \in acquired => (released[h] = 0 <=> OwnersOf(h) # {})

C1_Witness ==
    /\ Cardinality(acquired) >= 2
    /\ owners = {}
    /\ \A h \in acquired : released[h] = 1
    /\ \E h \in Handles : h \notin acquired

\* C24: a Devs iterator is always released before the Cache it was created
\* from, and a Tags iterator is never advanced or released after the Cache
\* owning its Dev was released: no interleaving of scope exits reaches a state
\* in which a live iterator refers to a released cache.
C24_IteratorWithinCache ==
    \A w \in owners :
        w.kind \in {"Devs", "Tags"} => released[w.parent] = 0

Constructors == {"Cache::new", "Cache::new_by_path", "Prober::new",
                 "Prober::new_from_filename", "BlkId::new", "Devs::new",
                 "Tags::new"}

\* C4 (as claimed): every constructor returns a failure result, without a
\* panic and without a wrapper around a null handle, when the native
\* allocation or lookup fails.
C4_ConstructionFails ==
    (outcome.op \in Constructors /\ outcome.failed) =>
        /\ outcome.res.tag = "Err"
        /\ ~panicked
        /\ OwnersOf(NULL) = {}

----------------------------------------------------------------------------
(* Specification SpecProbe: one Prober on one device.  The probing         *)
(* functions are numbered in the order the library calls them; `sigs` are  *)
(* those that find their signature on the device.                          *)

NFuncs == 4
MaxSafe == 3
Funcs == 1..NFuncs
Chains == {"superblocks", "partitions"}

\* the chain a probing function belongs to (superblocks come first)
Chain(f) == IF f < NFuncs THEN "superblocks" ELSE "partitions"

\* the probing functions marked "tolerant"
Tolerant(f) == f = 1

\* the signatures the enabled chains can detect
Detected ==
    {f \in sigs \ hidden : Chain(f) \in enabled /\ f \notin filter[Chain(f)]}

\* more than one signature that may not share the device
Colliding(S) == Cardinality({f \in S : ~Tolerant(f)}) > 1

Min(S) == CHOOSE x \in S : \A y \in S : x <= y

RECURSIVE Sorted(_)
Sorted(S) == IF S = {} THEN <<>> ELSE <<Min(S)>> \o Sorted(S \ {Min(S)})

\* blkid_do_probe: the next probing function after `pos` that detects
\* something, or none
NextFunc == LET later == {f \in Detected : f > pos}
            IN  IF later = {} THEN 0 ELSE Min(later)
NativeDoProbe(io) ==
    IF ~io THEN -1 ELSE IF NextFunc = 0 THEN 1 ELSE 0

\* blkid_do_safeprobe: all enabled chains, with the collision check
NativeDoSafeprobe(io) ==
    CASE ~io                 -> -1
      [] Colliding(Detected) -> -2
      [] Detected = {}       -> 1
      [] OTHER               -> 0

\* the first result of each enabled chain
FirstResults ==
    {f \in Detected : \A g \in Detected : Chain(g) = Chain(f) => f <= g}

Did(op, res, io) ==
    [op |-> op, res |-> res, from |-> pos, prev |-> last.op, io |-> io]

InitProbe ==
    /\ sigs \in SUBSET Funcs
    /\ enabled = {"superblocks"}
    /\ pos = 0
    /\ values = {}
    /\ last = [op |-> "new", res |-> NoRet, from |-> 0, prev |-> "none", io |-> TRUE]
    /\ run = <<>>
    /\ clean = FALSE
    /\ safeOk = 0
    /\ RetIdle /\ LifeIdle /\ PartIdle /\ RestIdle /\ WipeIdle /\ ConfIdle

\* what Prober::do_probe does to the probe
Probed(io) ==
    LET rc == NativeDoProbe(io)
        f == NextFunc
    IN  /\ last' = Did("do_probe", Prober_do_probe(rc), io)
        /\ pos' = CASE rc = 0 -> f [] rc = 1 -> 0 [] OTHER -> pos
        /\ values' = CASE rc = 0 -> {f} [] rc = 1 -> {} [] OTHER -> values
        /\ run' = CASE rc = 0 -> IF pos = 0 THEN <<f>> ELSE Append(run, f)
                    [] OTHER  -> run
        /\ clean' = (clean /\ io)
        /\ UNCHANGED <<sigs, enabled, safeOk>>

\* Prober::do_probe
DoProbe == \E io \in BOOLEAN : Probed(io) /\ UNCHANGED offProbe

\* what blkid_do_safeprobe leaves in the probe
Safeprobed(rc) ==
    /\ pos' = IF rc = -1 THEN pos ELSE 0
    /\ values' = CASE rc = 0 -> FirstResults [] rc = -1 -> values [] OTHER -> {}
    /\ clean' = FALSE
    /\ UNCHANGED <<sigs, enabled, run>>

\* Prober::do_safe_probe
DoSafeProbe ==
    \E io \in BOOLEAN :
        LET rc == NativeDoSafeprobe(io)
            res == Prober_do_safe_probe(rc)
        IN  /\ safeOk < MaxSafe
            /\ last' = Did("do_safe_probe", res, io)
            /\ safeOk' = IF res = Ok("ProbeState", "Success")
                         THEN safeOk + 1 ELSE safeOk
            /\ Safeprobed(rc)
            /\ UNCHANGED <<offProbe>>

\* Prober::do_full_probe; it calls blkid_do_safeprobe
DoFullProbe ==
    \E io \in BOOLEAN :
        LET rc == NativeDoSafeprobe(io)
        IN  /\ last' = Did("do_full_probe", Prober_do_full_probe(rc), io)
            /\ Safeprobed(rc)
            /\ UNCHANGED <<safeOk, offProbe>>

ResetProbeKeepsResults ==
    /\ last' = Did("reset_probe", Ok("Unit", ""), TRUE)
    /\ pos' = 0
    /\ run' = <<>>
    /\ clean' = TRUE
    /\ UNCHANGED <<sigs, enabled, values, safeOk, offProbe>>

\* Prober::reset_probe
ResetProbe ==
    /\ last' = Did("reset_probe", Ok("Unit", ""), TRUE)
    /\ pos' = 0
    /\ values' = {}
    /\ run' = <<>>
    /\ clean' = TRUE
    /\ UNCHANGED <<sigs, enabled, safeOk, offProbe>>

\* Prober::enable_superblocks / Prober::enable_partitions
EnableChain ==
    \E c \in Chains, enable \in BOOLEAN :
        /\ enabled' = IF enable THEN enabled \cup {c} ELSE enabled \ {c}
        /\ last' = Did("enable_" \o c, Ok("Unit", ""), TRUE)
        /\ clean' = FALSE
        /\ UNCHANGED <<sigs, pos, values, run, safeOk, offProbe>>

NextProbe == DoProbe \/ DoSafeProbe \/ DoFullProbe \/ ResetProbe \/ EnableChain

SpecProbe == InitProbe /\ [][NextProbe]_vars

Success == Ok("ProbeState", "Success")

\* C7 (as claimed): do_full_probe returns only Success or NothingDetected, and
\* on a device with colliding signatures (where do_safe_probe reports
\* Ambivalent) it reports Success.
C7_FullProbeIgnoresCollision ==
    last.op = "do_full_probe" =>
        /\ last.res.tag = "Ok" => last.res.val \in {"Success", "NothingDetected"}
        /\ (last.io /\ Colliding(Detected)) => last.res = Success

\* C8 (as claimed): on a device with one detectable signature do_safe_probe
\* returns Success only once, and NothingDetected after reset_probe.
C8_SafeProbeSuccessOnce ==
    (Cardinality(sigs) = 1 /\ Detected = sigs) =>
        /\ safeOk <= 1
        /\ (last.op = "do_safe_probe" /\ last.prev = "reset_probe" /\ last.io)
               => last.res = Ok("ProbeState", "NothingDetected")

\* C8 (amended): on a device with one detectable signature every
\* do_safe_probe call that the library completes returns Success: the first
\* call, a repeated call and a call after reset_probe alike.
C8_SafeProbeSuccessAlways ==
    (Cardinality(Detected) = 1 /\ last.op = "do_safe_probe" /\ last.io)
        => last.res = Success

C8_Witness ==
    /\ Cardinality(sigs) = 1 /\ Detected = sigs
    /\ last.op = "do_safe_probe" /\ last.prev = "reset_probe"
    /\ last.res = Success
    /\ safeOk >= 2

----------------------------------------------------------------------------
(* Specification SpecPart: PartList::get_partitions on a partition list.   *)
(* The native list has `nparts` partitions (a negative count is an error), *)
(* partition i is the pointer ptab[i + 1]; blkid_partlist_get_partition    *)
(* returns NULL outside the list, and at index failAt if that is set.      *)

MaxParts == 3
PartPtrs == 1..MaxParts

\* blkid_partlist_get_partition
NativeGetPartition(n) ==
    IF n >= 0 /\ n < nparts /\ n # failAt THEN ptab[n + 1] ELSE NULL

\* part_list.rs: the range `0..numof` of get_partitions' loop
InRangeInclusive(i, n) == i <= n
InRange(i, n) == i < n

InitPart ==
    /\ nparts \in -1..MaxParts
    /\ ptab \in {t \in [1..(IF nparts < 0 THEN 0 ELSE nparts) -> PartPtrs] :
                    \A i, j \in DOMAIN t : i # j => t[i] # t[j]}
    /\ failAt \in -1..(MaxParts - 1)
    /\ pc = "idle"
    /\ numof = 0
    /\ part_num = 0
    /\ partitions = <<>>
    /\ gp_ret = NoRet
    /\ ncalls = <<>>
    /\ RetIdle /\ LifeIdle /\ ProbeIdle /\ RestIdle

\* PartList::get_partitions is called
GetPartitions ==
    /\ pc = "idle"
    /\ pc' = "numof"
    /\ numof' = 0 /\ part_num' = 0 /\ partitions' = <<>>
    /\ gp_ret' = NoRet /\ ncalls' = <<>>
    /\ UNCHANGED <<nparts, ptab, failAt, offPart>>

\* let numof = self.numof_partitions()?; Vec::with_capacity(numof)
GpNumof ==
    LET r == PartList_numof_partitions(nparts)
    IN  /\ pc = "numof"
        /\ ncalls' = Append(ncalls, <<"numof_partitions", 0>>)
        /\ IF r.tag = "Err"
           THEN /\ gp_ret' = r /\ pc' = "done"
                /\ UNCHANGED <<numof, part_num, partitions>>
           ELSE /\ numof' = r.code /\ part_num' = 0 /\ partitions' = <<>>
                /\ pc' = "loop"
                /\ UNCHANGED gp_ret
        /\ UNCHANGED <<nparts, ptab, failAt, offPart>>

\* one turn of: for part_num in 0..numof { partitions.push(get_partition(part_num)?) }
GpLoop ==
    LET r == PartList_get_partition(NativeGetPartition(part_num))
    IN  /\ pc = "loop"
        /\ InRange(part_num, numof)
        /\ ncalls' = Append(ncalls, <<"get_partition", part_num>>)
        /\ IF r.tag = "Err"
           THEN /\ gp_ret' = r /\ pc' = "done"
                /\ UNCHANGED <<part_num, partitions>>
           ELSE /\ partitions' = Append(partitions, r.code)
                /\ part_num' = part_num + 1
                /\ UNCHANGED <<gp_ret, pc>>
        /\ UNCHANGED <<nparts, ptab, failAt, numof, offPart>>

\* Ok(partitions)
GpReturn ==
    /\ pc = "loop"
    /\ ~InRange(part_num, numof)
    /\ gp_ret' = Ok("Vec", "")
    /\ pc' = "done"
    /\ UNCHANGED <<nparts, ptab, failAt, numof, part_num, partitions, ncalls,
                   offPart>>

\* the caller takes the result; the list can be enumerated again
GpTaken ==
    /\ pc = "done"
    /\ pc' = "idle"
    /\ UNCHANGED <<nparts, ptab, failAt, numof, part_num, partitions, gp_ret,
                   ncalls, offPart>>

NextPart == GetPartitions \/ GpNumof \/ GpLoop \/ GpReturn \/ GpTaken

SpecPart == InitPart /\ [][NextPart]_vars

\* C10: for a partition list whose native count is N >= 0 (every partition of
\* which the library can return), get_partitions returns exactly N entries,
\* entry i being the partition of get_partition(i), in increasing order of i,
\* none duplicated or skipped.
C10_GetPartitionsExact ==
    (pc = "done" /\ nparts >= 0 /\ failAt \notin 0..(nparts - 1)) =>
        /\ gp_ret = Ok("Vec", "")
        /\ Len(partitions) = nparts
        /\ \A i \in 0..(nparts - 1) :
               partitions[i + 1] = c_result_ptr(NativeGetPartition(i)).code
        /\ \A i, j \in 1..Len(partitions) :
               i # j => partitions[i] # partitions[j]
        /\ ncalls = <<<<"numof_partitions", 0>>>>
                      \o [i \in 1..nparts |-> <<"get_partition", i - 1>>]

C10_Witness ==
    /\ pc = "done"
    /\ nparts = 3
    /\ gp_ret = Ok("Vec", "")
    /\ Len(partitions) = 3
    /\ ptab # <<1, 2, 3>>

----------------------------------------------------------------------------
(* Text from foreign buffers.  A foreign buffer is a sequence of bytes (the  *)
(* C string without its terminating NUL); a Rust string is the sequence of   *)
(* its code points.  The decoder covers one- and two-byte UTF-8 sequences;   *)
(* every other byte is an invalid sequence of its own.                       *)

\* std::str::from_utf8, as called by CStr::to_str: is the buffer valid UTF-8
\* (a lead byte of a two-byte sequence needs a continuation byte after it)
RECURSIVE Utf8Valid(_)
Utf8Valid(b) ==
    IF b = <<>> THEN TRUE
    ELSE IF b[1] < 128 THEN Utf8Valid(Tail(b))
    ELSE IF Len(b) >= 2 /\ b[1] \in 194..223 /\ b[2] \in 128..191
         THEN Utf8Valid(Tail(Tail(b)))
    ELSE FALSE

\* String::from_utf8_lossy, as called by CStr::to_string_lossy: U+FFFD (65533)
\* takes the place of each invalid sequence
RECURSIVE from_utf8_lossy(_)
from_utf8_lossy(b) ==
    IF b = <<>> THEN <<>>
    ELSE IF b[1] < 128 THEN <<b[1]>> \o from_utf8_lossy(Tail(b))
    ELSE IF Len(b) >= 2 /\ b[1] \in 194..223 /\ b[2] \in 128..191
         THEN <<(b[1] - 192) * 64 + (b[2] - 128)>> \o from_utf8_lossy(Tail(Tail(b)))
    ELSE <<65533>> \o from_utf8_lossy(Tail(b))

\* CStr::to_str: the text, or a Utf8Error
CStr_to_str(b) ==
    IF Utf8Valid(b) THEN [tag |-> "Ok", text |-> from_utf8_lossy(b)]
    ELSE [tag |-> "Err", text |-> <<>>]

\* CStr::to_string_lossy: always a text
CStr_to_string_lossy(b) == [tag |-> "Ok", text |-> from_utf8_lossy(b)]

----------------------------------------------------------------------------
(* Specification SpecVals: get_values_map on a probing result.  The native  *)
(* result is the list pvals of (name, data) buffers; blkid_probe_get_value  *)
(* fails outside the list and at index vfailAt, blkid_probe_numof_values    *)
(* fails when vfailAt is -1.                                                *)

MaxVals == 3

\* the items of a probing result: the name is "TYPE", "UUID" or a buffer that
\* is not valid UTF-8, the data "1", "e" with an acute accent or an invalid one
Entries == [name : {<<84, 89, 80, 69>>, <<85, 85, 73, 68>>, <<255>>},
            data : {<<49>>, <<195, 169>>, <<255>>}]

RECURSIVE SeqsUpTo(_, _)
SeqsUpTo(S, n) ==
    IF n = 0 THEN {<<>>}
    ELSE SeqsUpTo(S, n - 1)
         \cup {Append(q, x) : q \in {r \in SeqsUpTo(S, n - 1) : Len(r) = n - 1}, x \in S}

\* blkid_probe_numof_values
NativeNumofValues == IF vfailAt = -1 THEN -1 ELSE Len(pvals)

\* blkid_probe_get_value: the return code; name and data are pvals[num + 1]
NativeGetValue(num) ==
    IF num >= 0 /\ num < Len(pvals) /\ num # vfailAt THEN 0 ELSE -1

\* prober.rs: Prober::get_value
Prober_get_value(num) ==
    LET r == c_result_int(NativeGetValue(num))
    IN  IF r.tag = "Err" THEN [res |-> r, name |-> <<>>, data |-> <<>>]
        ELSE LET name_value == CStr_to_str(pvals[num + 1].name)
                 data_value == CStr_to_str(pvals[num + 1].data)
             IN  IF name_value.tag = "Err" \/ data_value.tag = "Err"
                 THEN [res |-> Err("Utf8"), name |-> <<>>, data |-> <<>>]
                 ELSE [res |-> Ok("Pair", ""), name |-> name_value.text,
                       data |-> data_value.text]

\* lib.rs: BlkId::get_value
BlkId_get_value(num) ==
    IF NativeGetValue(num) < 0
    THEN [res |-> Err("Error"), name |-> <<>>, data |-> <<>>]
    ELSE [res |-> Ok("Pair", ""),
          name |-> CStr_to_string_lossy(pvals[num + 1].name).text,
          data |-> CStr_to_string_lossy(pvals[num + 1].data).text]

get_value(w, num) ==
    IF w = "Prober" THEN Prober_get_value(num) ELSE BlkId_get_value(num)

numof_values_of(w) ==
    IF w = "Prober" THEN Prober_numof_values(NativeNumofValues)
    ELSE BlkId_numof_values(NativeNumofValues)

\* HashMap::insert: the new value replaces the one stored under the key
MapInsertKeepsOld(m, key, value) ==
    [k \in DOMAIN m \cup {key} |-> IF k \in DOMAIN m THEN m[k] ELSE value]
MapInsert(m, key, value) ==
    [k \in DOMAIN m \cup {key} |-> IF k = key THEN value ELSE m[k]]

InitVals ==
    /\ pvals \in SeqsUpTo(Entries, MaxVals)
    /\ vfailAt \in -2..(MaxVals - 1)
    /\ vimpl = "none"
    /\ vpc = "idle"
    /\ numof_values = 0
    /\ vi = 0
    /\ map = <<>>
    /\ gvm_ret = NoRet
    /\ vcalls = <<>>
    /\ RetIdle /\ IterIdle /\ LifeIdle /\ ProbeIdle /\ PartIdle /\ ViewIdle /\ CacheIdle
    /\ TagIdle /\ TextIdle

\* Prober::get_values_map or BlkId::get_values_map is called
GetValuesMap ==
    \E w \in {"Prober", "BlkId"} :
        /\ vpc = "idle"
        /\ vimpl' = w
        /\ vpc' = "numof"
        /\ numof_values' = 0 /\ vi' = 0 /\ map' = <<>>
        /\ gvm_ret' = NoRet /\ vcalls' = <<>>
        /\ UNCHANGED <<pvals, vfailAt, offVals>>

\* let numof_values = self.numof_values()?; HashMap::with_capacity(..)
GvmNumof ==
    LET r == numof_values_of(vimpl)
    IN  /\ vpc = "numof"
        /\ vcalls' = Append(vcalls, <<"numof_values", 0>>)
        /\ IF r.tag = "Err"
           THEN /\ gvm_ret' = r /\ vpc' = "done"
                /\ UNCHANGED <<numof_values, vi, map>>
           ELSE /\ numof_values' = r.code /\ vi' = 0 /\ map' = <<>>
                /\ vpc' = "loop"
                /\ UNCHANGED gvm_ret
        /\ UNCHANGED <<pvals, vfailAt, vimpl, offVals>>

\* one turn of: for i in 0..numof_values { map.insert(get_value(i)?) }
\* resp. of: (0..numof_values).map(|i| get_value(i).expect(..)).collect()
GvmLoop ==
    LET g == get_value(vimpl, vi)
    IN  /\ vpc = "loop"
        /\ InRange(vi, numof_values)
        /\ vcalls' = Append(vcalls, <<"get_value", vi>>)
        /\ IF g.res.tag = "Err"
           THEN /\ gvm_ret' = IF vimpl = "Prober" THEN g.res
                               ELSE [Panic EXCEPT !.kind = "expect"]
                /\ vpc' = "done"
                /\ UNCHANGED <<vi, map>>
           ELSE /\ map' = MapInsert(map, g.name, g.data)
                /\ vi' = vi + 1
                /\ UNCHANGED <<gvm_ret, vpc>>
        /\ UNCHANGED <<pvals, vfailAt, vimpl, numof_values, offVals>>

\* Ok(map)
GvmReturn ==
    /\ vpc = "loop"
    /\ ~InRange(vi, numof_values)
    /\ gvm_ret' = Ok("HashMap", "")
    /\ vpc' = "done"
    /\ UNCHANGED <<pvals, vfailAt, vimpl, numof_values, vi, map, vcalls, offVals>>

\* the caller takes the result; the probing result can be read again
GvmTaken ==
    /\ vpc = "done"
    /\ vpc' = "idle"
    /\ UNCHANGED <<pvals, vfailAt, vimpl, numof_values, vi, map, gvm_ret,
                   vcalls, offVals>>

NextVals == GetValuesMap \/ GvmNumof \/ GvmLoop \/ GvmReturn \/ GvmTaken

SpecVals == InitVals /\ [][NextVals]_vars

\* C11: the map get_values_map returns has as its keys exactly the names of
\* get_value(i) for i in 0..numof_values, and under each name the value of the
\* entry with that name (the entry with the highest index if the name
\* repeats); so every entry of the probing result (TYPE, UUID, ...) is in it.
C11_ValuesMapExact ==
    (vpc = "done" /\ gvm_ret.tag = "Ok") =>
        LET n == NativeNumofValues
            gv(i) == get_value(vimpl, i)
        IN  /\ n = Len(pvals)
            /\ \A i \in 0..(n - 1) : gv(i).res.tag = "Ok"
            /\ DOMAIN map = {gv(i).name : i \in 0..(n - 1)}
            /\ \A i \in 0..(n - 1) :
                   (\A j \in (i + 1)..(n - 1) : gv(j).name # gv(i).name)
                       => map[gv(i).name] = gv(i).data
            /\ \A i \in 1..n :
                   from_utf8_lossy(pvals[i].name) \in DOMAIN map

C11_Witness ==
    /\ vpc = "done" /\ gvm_ret.tag = "Ok" /\ vimpl = "Prober"
    /\ Len(pvals) = 3
    /\ pvals[1].name = pvals[3].name
    /\ pvals[1].name # pvals[2].name
    /\ pvals[1].data # pvals[3].data
    /\ Cardinality(DOMAIN map) = 2
    /\ map[<<84, 89, 80, 69>>] = <<233>>

\* C14 (as claimed): in get_values_map the first failing call (numof_values or
\* the i-th get_value) is the last call issued; the operation returns that
\* error at once, without a panic and without a partial map.
C14_ErrorPropagation ==
    LET FailedCall(c) ==
            \/ c[1] = "numof_values" /\ numof_values_of(vimpl).tag = "Err"
            \/ c[1] = "get_value" /\ get_value(vimpl, c[2]).res.tag = "Err"
    IN  /\ \A k \in 1..Len(vcalls) :
               FailedCall(vcalls[k]) =>
                   /\ k = Len(vcalls)
                   /\ vpc \in {"done", "idle"}
                   /\ gvm_ret.tag = "Err"
                   /\ \A j \in 1..(k - 1) : vcalls[j] # vcalls[k]
        /\ gvm_ret.tag # "Panic"
        /\ gvm_ret.tag = "Ok" => \A k \in 1..Len(vcalls) : ~FailedCall(vcalls[k])

----------------------------------------------------------------------------
(* Specification SpecView: the views a Prober hands out.  PartList,         *)
(* PartTable, Partition and Topology are plain copies of a native pointer    *)
(* into the Prober; nothing in their types ties them to it.  A view records  *)
(* the handle it points into (`of`), the retrieval it stems from and the     *)
(* number of that retrieval (`gen`).                                         *)

MaxGen == 2
MaxHeld == 3

View(kind, of, from, g) == [kind |-> kind, of |-> of, from |-> from, gen |-> g]

\* the accessors of each view
ViewOps(kind) ==
    CASE kind = "PartList"  -> {"numof_partitions", "get_partition", "get_table"}
      [] kind = "PartTable" -> {"get_id"}
      [] kind = "Partition" -> {"name"}
      [] kind = "Topology"  -> {"alignment_offset"}
      [] kind = "Dev"       -> {"name", "verify", "tags"}

\* an accessor dereferences the view's pointer: `live` says that the owner
\* behind the view has not been released, `current` that no later retrieval of
\* the same kind has overwritten the native object
Reading(v, op) ==
    [kind |-> v.kind, op |-> op, live |-> released[v.of] = 0,
     current |-> v.from \notin Retrievals \/ v.gen = gen[v.from]]

Hold(v) == IF Cardinality(held) < MaxHeld THEN held \cup {v} ELSE held

InitView ==
    /\ acquired = {1}
    /\ released = [h \in {NULL} \cup Handles |-> 0]
    /\ owners = {[kind |-> "Prober", h |-> 1, parent |-> NULL]}
    /\ nextH = 2
    /\ panicked = FALSE
    /\ outcome = [op |-> "Prober::new_from_filename", res |-> OkInt("Prober", 1),
                  failed |-> FALSE, path |-> "/dev/sda", acq |-> 1, h |-> 1]
    /\ held = {}
    /\ gen = [k \in Retrievals |-> 0]
    /\ read = NoRead
    /\ RetIdle /\ IterIdle /\ ProbeIdle /\ PartIdle /\ ValsIdle /\ CacheIdle /\ TagIdle
    /\ TextIdle

\* what a retrieval on the live Prober w leaves behind
Retrieved(w, from, kind, r) ==
    /\ gen[from] < MaxGen
    /\ IF r.tag = "Ok"
       THEN /\ gen' = [gen EXCEPT ![from] = @ + 1]
            /\ held' = Hold(View(kind, w.h, from, gen[from] + 1))
       ELSE UNCHANGED <<gen, held>>
    /\ UNCHANGED <<read, lifeVars, cacheVars, offView>>

\* Prober::part_list
ProberPartList ==
    \E w \in owners, ptr \in Ptrs :
        /\ w.kind = "Prober"
        /\ Retrieved(w, "part_list", "PartList", Prober_part_list(ptr))

\* Prober::topology
ProberTopology ==
    \E w \in owners, ptr \in Ptrs :
        /\ w.kind = "Prober"
        /\ Retrieved(w, "topology", "Topology", Prober_topology(ptr))

\* an accessor of a held view; the view's type asks for nothing but the view
Accessor ==
    \E v \in held, ptr \in Ptrs :
        \E op \in ViewOps(v.kind) :
            /\ v.kind # "Dev"
            /\ read' = Reading(v, op)
            /\ held' = CASE op = "get_partition" /\ ptr # NULL ->
                                Hold(View("Partition", v.of, v.from, v.gen))
                          [] op = "get_table" /\ ptr # NULL ->
                                Hold(View("PartTable", v.of, v.from, v.gen))
                          [] OTHER -> held
            /\ UNCHANGED <<gen, lifeVars, cacheVars, offView>>

\* a view leaves scope; it has no Drop
Forget ==
    \E v \in held :
        /\ held' = held \ {v}
        /\ UNCHANGED <<gen, read, lifeVars, cacheVars, offView>>

NextView == ProberPartList \/ ProberTopology \/ Accessor \/ Forget \/ Drop

SpecView == InitView /\ [][NextView]_vars

\* C12 (as claimed): an accessor of a PartList, PartTable, Partition or
\* Topology view is executed only while the Prober that produced the view is
\* alive and no later retrieval of the same kind was issued on that Prober.
C12_ViewReadValid ==
    read.kind \in {"PartList", "PartTable", "Partition", "Topology"} =>
        read.live /\ read.current

----------------------------------------------------------------------------
(* Specification SpecCache: one Cache, its device entries and the Dev views  *)
(* it hands out.  A Dev is a plain copy of a native pointer into the Cache.  *)
(* The library looks a device up by name and, as the documentation of        *)
(* get_dev says, creates an empty entry when none exists and CREATE is set.  *)

\* dev.rs: GetDevFlags
FIND == 0
CREATE == 1
VERIFY == 2
NORMAL == 3

\* bitflags: the bit is set in flags.bits()
HasFlag(flags, bit) == (flags \div bit) % 2 = 1

\* the tag names and values given to the lookups ("nul" has an interior NUL)
TagNames == {"TYPE", "LABEL", "nul"}
TagValues == {"ext4", "nul"}

\* the tags the library has stored for a device
TagValue(devname, tagname) ==
    IF devname = "/dev/sda" /\ tagname = "TYPE" THEN "ext4" ELSE ""

\* CString::new: fails on an interior NUL byte, before anything else happens
CString_new_unchecked(str) == Ok("CString", str)
CString_new(str) == IF HasNul(str) THEN Err("Nul") ELSE Ok("CString", str)

\* position of the entry for devname in the cache's list, 0 if there is none
IndexOf(list, devname) ==
    IF \E i \in 1..Len(list) : list[i] = devname
    THEN Min({i \in 1..Len(list) : list[i] = devname})
    ELSE 0

\* blkid_get_dev: the entry found (its position stands for the pointer) or
\* created, and the cache's list afterwards; created says whether the library
\* can create an entry
NativeGetDev(devname, flags, created) ==
    IF IndexOf(entries, devname) # 0
    THEN [ptr |-> IndexOf(entries, devname), list |-> entries]
    ELSE IF HasFlag(flags, CREATE) /\ created
         THEN [ptr |-> Len(entries) + 1, list |-> Append(entries, devname)]
         ELSE [ptr |-> NULL, list |-> entries]

\* blkid_find_dev_with_tag
NativeFindDevWithTag(name, value) ==
    IF \E i \in 1..Len(entries) : TagValue(entries[i], name) = value
    THEN Min({i \in 1..Len(entries) : TagValue(entries[i], name) = value})
    ELSE NULL

\* blkid_get_tag_value
NativeGetTagValue(tagname, devname) ==
    IF IndexOf(entries, devname) # 0 /\ TagValue(devname, tagname) # ""
    THEN IndexOf(entries, devname)
    ELSE NULL

StrCall(op, s1, s2, flags, res, native) ==
    [op |-> op, s1 |-> s1, s2 |-> s2, flags |-> flags, res |-> res,
     text |-> <<>>, native |-> native, before |-> entries]

\* CStr::from_ptr(ptr).to_str()?.to_owned() on the value the library returned
\* (the bytes of "ext4")
WithText(c, value) ==
    LET r == CStr_to_str(IF value = "ext4" THEN <<101, 120, 116, 52>> ELSE <<>>)
    IN  IF r.tag = "Err" THEN [c EXCEPT !.res = Err("Utf8")]
        ELSE [c EXCEPT !.text = r.text]

RECURSIVE NoDupSeqs(_)
NoDupSeqs(S) ==
    {<<>>} \cup UNION {{<<x>> \o q : q \in NoDupSeqs(S \ {x})} : x \in S}

InitCache ==
    /\ acquired = {1}
    /\ released = [h \in {NULL} \cup Handles |-> 0]
    /\ owners = {[kind |-> "Cache", h |-> 1, parent |-> NULL]}
    /\ nextH = 2
    /\ panicked = FALSE
    /\ outcome = [op |-> "Cache::new", res |-> OkInt("Cache", 1),
                  failed |-> FALSE, path |-> "", acq |-> 1, h |-> 1]
    /\ held = {}
    /\ gen = [k \in Retrievals |-> 0]
    /\ read = NoRead
    /\ entries \in NoDupSeqs({p \in Paths : ~HasNul(p)})
    /\ scall = NoCall
    /\ RetIdle /\ IterIdle /\ ProbeIdle /\ PartIdle /\ ValsIdle /\ TagIdle /\ TextIdle

\* Cache::get_dev
CacheGetDev ==
    \E c \in owners, name \in Paths, flags \in {FIND, CREATE, VERIFY, NORMAL},
       created \in BOOLEAN :
        LET devname == CString_new(name)
            n == NativeGetDev(name, flags, created)
            dev == Cache_get_dev(n.ptr)
        IN  /\ c.kind = "Cache" /\ ~panicked
            /\ IF devname.tag = "Err"
               THEN /\ scall' = StrCall("Cache::get_dev", name, "", flags, devname, <<>>)
                    /\ UNCHANGED <<entries, held>>
               ELSE /\ scall' = StrCall("Cache::get_dev", name, "", flags, dev,
                                        <<"blkid_get_dev">>)
                    /\ entries' = n.list
                    /\ held' = IF dev.tag = "Ok"
                               THEN Hold(View("Dev", c.h, name, 0)) ELSE held
            /\ UNCHANGED <<gen, read, lifeVars, offView>>

\* Cache::find_dev_with_tag
CacheFindDevWithTag ==
    \E c \in owners, tname \in TagNames, tvalue \in TagValues :
        LET name == CString_new(tname)
            value == CString_new(tvalue)
            ptr == NativeFindDevWithTag(tname, tvalue)
            dev == Cache_find_dev_with_tag(ptr)
        IN  /\ c.kind = "Cache" /\ ~panicked
            /\ IF name.tag = "Err" \/ value.tag = "Err"
               THEN /\ scall' = StrCall("Cache::find_dev_with_tag", tname, tvalue, 0,
                                        IF name.tag = "Err" THEN name ELSE value, <<>>)
                    /\ UNCHANGED held
               ELSE /\ scall' = StrCall("Cache::find_dev_with_tag", tname, tvalue, 0,
                                        dev, <<"blkid_find_dev_with_tag">>)
                    /\ held' = IF ptr # NULL
                               THEN Hold(View("Dev", c.h, entries[ptr], 0)) ELSE held
            /\ UNCHANGED <<entries, gen, read, lifeVars, offView>>

\* Cache::find_tag_value
CacheFindTagValue ==
    \E c \in owners, tname \in TagNames, dev_name \in Paths :
        LET tagname == CString_new(tname)
            devname == CString_new(dev_name)
            ptr == NativeGetTagValue(tname, dev_name)
            found == StrCall("Cache::find_tag_value", tname, dev_name, 0,
                            Cache_find_tag_value(ptr), <<"blkid_get_tag_value">>)
        IN  /\ c.kind = "Cache" /\ ~panicked
            /\ scall' = IF tagname.tag = "Err" \/ devname.tag = "Err"
                        THEN StrCall("Cache::find_tag_value", tname, dev_name, 0,
                                     IF tagname.tag = "Err" THEN tagname ELSE devname,
                                     <<>>)
                        ELSE IF ptr = NULL THEN found
                        ELSE WithText(found, TagValue(dev_name, tname))
            /\ UNCHANGED <<entries, held, gen, read, lifeVars, offView>>

\* Dev::name, Dev::verify (which takes a live Cache as its argument)
DevAccessor ==
    \E v \in held, op \in {"name", "verify"} :
        /\ v.kind = "Dev" /\ ~panicked
        /\ op = "verify" => \E c \in owners : c.kind = "Cache"
        /\ read' = Reading(v, op)
        /\ UNCHANGED <<held, gen, entries, scall, lifeVars, offView>>

\* Dev::tags, which begins a tag iteration on the device
DevTags ==
    \E v \in held, ok \in BOOLEAN :
        LET iter == Alloc(ok)
        IN  /\ v.kind = "Dev" /\ ~panicked
            /\ read' = Reading(v, "tags")
            /\ Constructed("Tags::new", "Tags", "", iter, iter = NULL,
                           Tags_new(iter), v.of)
            /\ UNCHANGED <<held, gen, entries, scall, offView>>

NextCache ==
    \/ CacheGetDev \/ CacheFindDevWithTag \/ CacheFindTagValue
    \/ DevAccessor \/ DevTags \/ Forget \/ Drop

SpecCache == InitCache /\ [][NextCache]_vars

\* C13 (as claimed): no Dev operation (name, verify, tags) is executed on a Dev
\* obtained from a Cache after that Cache has been released.
C13_DevUsedWhileCacheLive ==
    read.kind = "Dev" => read.live

----------------------------------------------------------------------------
(* Specification SpecNul: a Prober that probes and a Cache, and the six      *)
(* operations of the two that take string arguments.                         *)

\* the names in the probing result: a superblock stores TYPE, a partition
\* table PTTYPE
ValueNames ==
    {IF Chain(f) = "superblocks" THEN "TYPE" ELSE "PTTYPE" : f \in values}

\* blkid_probe_has_value
NativeHasValue(name) == IF name \in ValueNames THEN 1 ELSE 0

\* blkid_probe_lookup_value
NativeLookupValue(name) == IF name \in ValueNames THEN 0 ELSE -1

\* blkid_known_fstype
NativeKnownFstype(fstype) == IF fstype = "ext4" THEN 1 ELSE 0

InitNul ==
    /\ acquired = {1, 2}
    /\ released = [h \in {NULL} \cup Handles |-> 0]
    /\ owners = {[kind |-> "Cache", h |-> 1, parent |-> NULL],
                 [kind |-> "Prober", h |-> 2, parent |-> NULL]}
    /\ nextH = 3
    /\ panicked = FALSE
    /\ outcome = [op |-> "Prober::new_from_filename", res |-> OkInt("Prober", 2),
                  failed |-> FALSE, path |-> "/dev/sda", acq |-> 2, h |-> 2]
    /\ held = {}
    /\ gen = [k \in Retrievals |-> 0]
    /\ read = NoRead
    /\ entries \in NoDupSeqs({p \in Paths : ~HasNul(p)})
    /\ scall = NoCall
    /\ sigs \in {{}, {2}, {1, 3}}
    /\ enabled = {"superblocks"}
    /\ pos = 0
    /\ values = {}
    /\ last = [op |-> "new", res |-> NoRet, from |-> 0, prev |-> "none", io |-> TRUE]
    /\ run = <<>>
    /\ clean = FALSE
    /\ safeOk = 0
    /\ RetIdle /\ IterIdle /\ PartIdle /\ ValsIdle /\ TagIdle /\ TextIdle /\ WipeIdle /\ ConfIdle

\* Prober::has_value
ProberHasValue ==
    \E w \in owners, name \in TagNames :
        LET cname == CString_new(name)
        IN  /\ w.kind = "Prober"
            /\ scall' = IF cname.tag = "Err"
                        THEN StrCall("Prober::has_value", name, "", 0, cname, <<>>)
                        ELSE StrCall("Prober::has_value", name, "", 0,
                                     Prober_has_value(NativeHasValue(name)),
                                     <<"blkid_probe_has_value">>)
            /\ UNCHANGED <<entries, viewVars, lifeVars, offView>>

\* Prober::lookup_value
ProberLookupValue ==
    \E w \in owners, name \in TagNames :
        LET cname == CString_new(name)
            r == c_result_int(NativeLookupValue(name))
            looked == StrCall("Prober::lookup_value", name, "", 0,
                              MapOk(r, "String", ""), <<"blkid_probe_lookup_value">>)
        IN  /\ w.kind = "Prober"
            /\ scall' = IF cname.tag = "Err"
                        THEN StrCall("Prober::lookup_value", name, "", 0, cname, <<>>)
                        ELSE IF r.tag = "Err" THEN looked
                        ELSE WithText(looked, "ext4")
            /\ UNCHANGED <<entries, viewVars, lifeVars, offView>>

\* Prober::known_fstype (an associated function: it takes no Prober)
ProberKnownFstype ==
    \E fstype \in {"ext4", "nofs", "nul"} :
        LET cname == CString_new(fstype)
        IN  /\ ~panicked
            /\ scall' = IF cname.tag = "Err"
                        THEN StrCall("Prober::known_fstype", fstype, "", 0, cname, <<>>)
                        ELSE StrCall("Prober::known_fstype", fstype, "", 0,
                                     Prober_known_fstype(NativeKnownFstype(fstype)),
                                     <<"blkid_known_fstype">>)
            /\ UNCHANGED <<entries, viewVars, lifeVars, offView>>

\* a step of one of the six operations
StrStep ==
    \/ ProberHasValue \/ ProberLookupValue \/ ProberKnownFstype
    \/ CacheGetDev \/ CacheFindDevWithTag \/ CacheFindTagValue

NextNul == DoProbe \/ StrStep

SpecNul == InitNul /\ [][NextNul]_vars

\* the last string operation was given an argument with an interior NUL
NulArg(c) == c.op # "none" /\ (HasNul(c.s1) \/ HasNul(c.s2))

\* C18: has_value, lookup_value, known_fstype, get_dev, find_dev_with_tag and
\* find_tag_value, given a string argument with an interior NUL, return the
\* string-encoding error without invoking any native function, and the step
\* leaves the Prober's position and results and the Cache's entries unchanged.
C18_NulBeforeNative ==
    /\ [](NulArg(scall) =>
             /\ scall.res = Err("Nul")
             /\ scall.native = <<>>
             /\ entries = scall.before)
    /\ [][(NulArg(scall') /\ StrStep) =>
             UNCHANGED <<sigs, enabled, pos, values, run, entries, held>>]_vars

C18_Witness ==
    /\ scall.op = "Cache::get_dev" /\ HasNul(scall.s1) /\ scall.flags = CREATE
    /\ scall.res = Err("Nul")
    /\ pos = 3 /\ values = {3}
    /\ Len(entries) = 1

----------------------------------------------------------------------------
(* The tri-state returns of has_value and known_fstype, under SpecRet.      *)

\* C15 (as claimed): Prober::has_value and Prober::known_fstype turn the native
\* return 1 into true, 0 into false and every other code into the error
\* LibBlkidHasValue resp. LibBlkidKnownFsType carrying that code; no code other
\* than 0 is reported as false.
C15_TriStateTranslation ==
    (ret # NoRet /\ call.op \in {"Prober::has_value", "Prober::known_fstype"}) =>
        /\ call.raw = 1 => ret = Ok("Bool", "true")
        /\ call.raw = 0 => ret = Ok("Bool", "false")
        /\ call.raw \notin {0, 1} =>
               ret = ErrCode(IF call.op = "Prober::has_value"
                             THEN "LibBlkidHasValue" ELSE "LibBlkidKnownFsType",
                             call.raw)
        /\ ret = Ok("Bool", "false") => call.raw = 0

----------------------------------------------------------------------------
(* Tag names.  A string is the sequence of its characters, so that the     *)
(* names strum derives from the variant identifiers are computed, not      *)
(* assumed.                                                                 *)

offTag == <<retVars, lifeVars, probeVars, partVars, valsVars, viewVars, cacheVars,
           textVars, wipeVars,
             confVars, iterVars>>

Alphabet == [lower |-> <<"a","b","c","d","e","f","g","h","i","j","k","l","m",
                         "n","o","p","q","r","s","t","u","v","w","x","y","z">>,
             upper |-> <<"A","B","C","D","E","F","G","H","I","J","K","L","M",
                         "N","O","P","Q","R","S","T","U","V","W","X","Y","Z">>]

\* serialize_all = "SCREAMING_SNAKE_CASE": the identifier is split into words
\* before each upper-case letter that follows a lower-case one (or that ends a
\* run of upper-case letters), the words are upper-cased and joined with "_".
to_shouty_snake_case(ident) ==
    LET IsLower(c) == \E i \in 1..26 : Alphabet.lower[i] = c
        IsUpper(c) == \E i \in 1..26 : Alphabet.upper[i] = c
        to_uppercase(c) ==
            IF IsLower(c)
            THEN Alphabet.upper[CHOOSE i \in 1..26 : Alphabet.lower[i] = c]
            ELSE c
        boundary(n) ==
            /\ n > 1
            /\ IsUpper(ident[n])
            /\ \/ IsLower(ident[n - 1])
               \/ IsUpper(ident[n - 1]) /\ n < Len(ident) /\ IsLower(ident[n + 1])
        RECURSIVE upto(_)
        upto(n) ==
            IF n = 0 THEN <<>>
            ELSE upto(n - 1) \o (IF boundary(n) THEN <<"_">> ELSE <<>>)
                             \o <<to_uppercase(ident[n])>>
    IN  upto(Len(ident))

SuperblockTag ==
    {<<"T","y","p","e">>,
     <<"S","e","c","T","y","p","e">>,
     <<"L","a","b","e","l">>,
     <<"L","a","b","e","l","R","a","w">>,
     <<"U","u","i","d">>,
     <<"U","u","i","d","S","u","b">>,
     <<"L","o","g","u","u","i","d">>,
     <<"U","u","i","d","R","a","w">>,
     <<"E","x","t","J","o","u","r","n","a","l">>,
     <<"U","s","a","g","e">>,
     <<"V","e","r","s","i","o","n">>,
     <<"M","o","u","n","t">>,
     <<"S","b","m","a","g","i","c">>,
     <<"S","b","m","a","g","i","c","O","f","f","s","e","t">>,
     <<"F","s","s","i","z","e">>,
     <<"S","y","s","t","e","m","I","d">>,
     <<"P","u","b","l","i","s","h","e","r","I","d">>,
     <<"A","p","p","l","i","c","a","t","i","o","n","I","d">>,
     <<"B","o","o","t","S","y","s","t","e","m","I","d">>,
     <<"B","l","o","c","k","S","i","z","e">>}

PartitionTag ==
    {<<"P","t","t","y","p","e">>,
     <<"P","t","u","u","i","d">>,
     <<"P","a","r","t","E","n","t","r","y","S","c","h","e","m","a">>,
     <<"P","a","r","t","E","n","t","r","y","N","a","m","e">>,
     <<"P","a","r","t","E","n","t","r","y","U","u","i","d">>,
     <<"P","a","r","t","E","n","t","r","y","T","y","p","e">>,
     <<"P","a","r","t","E","n","t","r","y","F","l","a","g","s">>,
     <<"P","a","r","t","E","n","t","r","y","N","u","m","b","e","r">>,
     <<"P","a","r","t","E","n","t","r","y","O","f","f","s","e","t">>,
     <<"P","a","r","t","E","n","t","r","y","S","i","z","e">>,
     <<"P","a","r","t","E","n","t","r","y","D","i","s","k">>}

TopologyTag ==
    {<<"L","o","g","i","c","a","l","S","e","c","t","o","r","S","i","z","e">>,
     <<"P","h","y","s","i","c","a","l","S","e","c","t","o","r","S","i","z","e">>,
     <<"M","i","n","i","m","u","m","I","o","S","i","z","e">>,
     <<"O","p","t","i","o","m","a","l","I","o","S","i","z","e">>,
     <<"A","l","i","g","n","m","e","n","t","O","f","f","s","e","t">>}

\* the names the derive macros generate for the variants, once and for all
Serialized ==
    [t \in SuperblockTag \cup PartitionTag \cup TopologyTag |->
         to_shouty_snake_case(t)]

\* EnumString: the variant whose serialized name is `name`, compared exactly;
\* <<>> stands for Err(VariantNotFound).
from_str(variants, name) ==
    LET hit == {t \in variants : Serialized[t] = name}
    IN  IF hit = {} THEN <<>> ELSE CHOOSE t \in hit : TRUE

TagType_from_two_enums(name) ==
    IF from_str(SuperblockTag, name) # <<>>
    THEN [kind |-> "Superblock", tag |-> from_str(SuperblockTag, name), name |-> <<>>]
    ELSE IF from_str(PartitionTag, name) # <<>>
    THEN [kind |-> "Partition", tag |-> from_str(PartitionTag, name), name |-> <<>>]
    ELSE [kind |-> "Unknown", tag |-> <<>>, name |-> name]

TagType_from(name) ==
    IF from_str(SuperblockTag, name) # <<>>
    THEN [kind |-> "Superblock", tag |-> from_str(SuperblockTag, name), name |-> <<>>]
    ELSE IF from_str(PartitionTag, name) # <<>>
    THEN [kind |-> "Partition", tag |-> from_str(PartitionTag, name), name |-> <<>>]
    ELSE IF from_str(TopologyTag, name) # <<>>
    THEN [kind |-> "Topoligy", tag |-> from_str(TopologyTag, name), name |-> <<>>]
    ELSE [kind |-> "Unknown", tag |-> <<>>, name |-> name]

\* The names a caller passes: the serialized name of every variant, every
\* identifier as written in the source, and names of no variant.
TagInputs ==
    LET idents == SuperblockTag \cup PartitionTag \cup TopologyTag
    IN  {to_shouty_snake_case(t) : t \in idents} \cup idents
        \cup {<<>>, <<"F","O","O">>,
              <<"O","P","T","I","M","A","L","_","I","O","_","S","I","Z","E">>,
              <<"S","E","C","_","_","T","Y","P","E">>}

InitTag ==
    /\ RetIdle /\ IterIdle /\ LifeIdle /\ ProbeIdle /\ PartIdle
    /\ ValsIdle /\ ViewIdle /\ CacheIdle /\ TextIdle
    /\ tagName \in TagInputs
    /\ tagType = NoTag
    /\ trip = NoTrip

TagFrom ==
    /\ tagType = NoTag
    /\ tagType' = TagType_from(tagName)
    /\ UNCHANGED <<tagName, trip, offTag>>

\* The caller takes the TagType and comes with another name.
TagTaken ==
    /\ tagType # NoTag
    /\ tagName' \in TagInputs
    /\ tagType' = NoTag
    /\ UNCHANGED <<trip, offTag>>

NextTag == TagFrom \/ TagTaken

SpecTag == InitTag /\ [][NextTag]_vars

\* C16: TagType::from classifies every name: Superblock(t) iff the name is the
\* SCREAMING_SNAKE_CASE name of the SuperblockTag variant t, else Partition(t)
\* iff it names the PartitionTag variant t, else Topoligy(t) iff it names the
\* TopologyTag variant t, else Unknown with the name unchanged; the three name
\* sets are pairwise disjoint and no two variants share a name, so trying the
\* three enums in any order gives the same result.
C16_TagTypeFrom ==
    LET Names(variants) == {to_shouty_snake_case(t) : t \in variants}
        Enum == [Superblock |-> SuperblockTag, Partition |-> PartitionTag,
                 Topoligy |-> TopologyTag]
        Kinds == DOMAIN Enum
        Orders == {o \in [1..3 -> Kinds] : \A k \in Kinds : \E i \in 1..3 : o[i] = k}
        Hits(k) == {t \in Enum[k] : to_shouty_snake_case(t) = tagName}
        First(o) ==
            IF \A i \in 1..3 : Hits(o[i]) = {}
            THEN [kind |-> "Unknown", tag |-> <<>>, name |-> tagName]
            ELSE LET i == CHOOSE i \in 1..3 :
                              /\ Hits(o[i]) # {}
                              /\ \A j \in 1..(i - 1) : Hits(o[j]) = {}
                 IN  [kind |-> o[i], tag |-> CHOOSE t \in Hits(o[i]) : TRUE,
                      name |-> <<>>]
    IN  /\ \A k \in Kinds : \A t, u \in Enum[k] :
               to_shouty_snake_case(t) = to_shouty_snake_case(u) => t = u
        /\ \A k, l \in Kinds : k # l => Names(Enum[k]) \cap Names(Enum[l]) = {}
        /\ tagType # NoTag =>
              /\ \A k \in Kinds : \A t \in Enum[k] :
                     tagType = [kind |-> k, tag |-> t, name |-> <<>>]
                         <=> tagName = to_shouty_snake_case(t)
              /\ tagType.kind = "Unknown"
                     <=> \A k \in Kinds : tagName \notin Names(Enum[k])
              /\ tagType.kind = "Unknown" => tagType.name = tagName
              /\ tagType.kind \in Kinds \cup {"Unknown"}
              /\ \A o \in Orders : First(o) = tagType

C16_Witness ==
    /\ tagName = <<"O","P","T","I","O","M","A","L","_","I","O","_","S","I","Z","E">>
    /\ tagType = [kind |-> "Topoligy", tag |-> <<"O","p","t","i","o","m","a","l","I","o","S","i","z","e">>,
                  name |-> <<>>]



\* C26: each of the five topology tag names of the native library,
\* LOGICAL_SECTOR_SIZE, PHYSICAL_SECTOR_SIZE, MINIMUM_IO_SIZE, OPTIMAL_IO_SIZE
\* and ALIGNMENT_OFFSET, is classified by TagType::from as Topoligy with the
\* corresponding TopologyTag variant, never as Unknown.
C26_TopologyNamesKnown ==
    LET Native ==
            <<<<"L","O","G","I","C","A","L","_","S","E","C","T","O","R","_","S","I","Z","E">>,
              <<"P","H","Y","S","I","C","A","L","_","S","E","C","T","O","R","_","S","I","Z","E">>,
              <<"M","I","N","I","M","U","M","_","I","O","_","S","I","Z","E">>,
              <<"O","P","T","I","M","A","L","_","I","O","_","S","I","Z","E">>,
              <<"A","L","I","G","N","M","E","N","T","_","O","F","F","S","E","T">>>>
        Variant ==
            <<<<"L","o","g","i","c","a","l","S","e","c","t","o","r","S","i","z","e">>,
              <<"P","h","y","s","i","c","a","l","S","e","c","t","o","r","S","i","z","e">>,
              <<"M","i","n","i","m","u","m","I","o","S","i","z","e">>,
              <<"O","p","t","i","o","m","a","l","I","o","S","i","z","e">>,
              <<"A","l","i","g","n","m","e","n","t","O","f","f","s","e","t">>>>
    IN  \A i \in 1..5 :
            (tagType # NoTag /\ tagName = Native[i]) =>
                tagType = [kind |-> "Topoligy", tag |-> Variant[i], name |-> <<>>]
----------------------------------------------------------------------------
(* Specification SpecTrip: a TagType is displayed (Tag::name, to_string)    *)
(* and the text is given back to TagType::from.                             *)

\* Display, printing the identifier of the variant as written
TagType_to_string_ident(t) ==
    IF t.kind = "Unknown" THEN t.name ELSE t.tag

\* impl Display for TagType: the derived Display of the inner enum prints the
\* serialized name of the variant, Unknown prints its string
TagType_to_string(t) ==
    IF t.kind = "Unknown" THEN t.name ELSE Serialized[t.tag]

\* Every value of TagType: the variants of the three enums and Unknown(s).
TagTypes ==
    {[kind |-> "Superblock", tag |-> t, name |-> <<>>] : t \in SuperblockTag}
    \cup {[kind |-> "Partition", tag |-> t, name |-> <<>>] : t \in PartitionTag}
    \cup {[kind |-> "Topoligy", tag |-> t, name |-> <<>>] : t \in TopologyTag}
    \cup {[kind |-> "Unknown", tag |-> <<>>, name |-> s] : s \in TagInputs}

InitTrip ==
    /\ RetIdle /\ IterIdle /\ LifeIdle /\ ProbeIdle /\ PartIdle
    /\ ValsIdle /\ ViewIdle /\ CacheIdle /\ TextIdle
    /\ tagName = <<>> /\ tagType = NoTag
    /\ \E t \in TagTypes : trip = [NoTrip EXCEPT !.pc = "new", !.t = t]

\* Tag::new(t, v).name(), that is t.to_string()
TagName ==
    /\ trip.pc = "new"
    /\ trip' = [trip EXCEPT !.pc = "shown", !.s = TagType_to_string(trip.t)]
    /\ UNCHANGED <<tagName, tagType, offTag>>

\* TagType::from on the text displayed
TagParse ==
    /\ trip.pc = "shown"
    /\ trip' = [trip EXCEPT !.pc = "parsed", !.back = TagType_from(trip.s)]
    /\ UNCHANGED <<tagName, tagType, offTag>>

\* The caller goes on with another TagType.
TripTaken ==
    /\ trip.pc = "parsed"
    /\ \E t \in TagTypes : trip' = [NoTrip EXCEPT !.pc = "new", !.t = t]
    /\ UNCHANGED <<tagName, tagType, offTag>>

NextTrip == TagName \/ TagParse \/ TripTaken

SpecTrip == InitTrip /\ [][NextTrip]_vars

\* C25 as stated: Display and From<&str> of TagType are inverse; for every
\* TagType value t, every Unknown(s) included, TagType::from of t.to_string()
\* is t.
C25_RoundTripAsClaimed ==
    trip.pc = "parsed" => trip.back = trip.t

\* C25: for every variant of SuperblockTag, PartitionTag and TopologyTag, and
\* for every Unknown(s) whose s is not the serialized name of a variant,
\* TagType::from of t.to_string() is t; for Unknown(s) with s the serialized
\* name of a variant the text is s and parsing it gives that variant.
C25_RoundTrip ==
    LET Known == {Serialized[v] : v \in DOMAIN Serialized}
    IN  /\ trip.pc \in {"shown", "parsed"} =>
              /\ trip.t.kind = "Unknown" => trip.s = trip.t.name
              /\ trip.t.kind # "Unknown" => trip.s = to_shouty_snake_case(trip.t.tag)
        /\ trip.pc = "parsed" =>
              IF trip.t.kind = "Unknown" /\ trip.t.name \in Known
              THEN /\ trip.back.kind # "Unknown"
                   /\ to_shouty_snake_case(trip.back.tag) = trip.t.name
              ELSE trip.back = trip.t

C25_Witness ==
    /\ trip.pc = "parsed"
    /\ trip.t = [kind |-> "Unknown", tag |-> <<>>, name |-> <<"T","Y","P","E">>]
    /\ trip.back = [kind |-> "Superblock", tag |-> <<"T","y","p","e">>, name |-> <<>>]
----------------------------------------------------------------------------
(* Specification SpecText: the operations that return text read from a      *)
(* foreign buffer.  The buffers the native call fills are pvals[1].name     *)
(* (a name, where the operation reads one) and pvals[1].data (the value).   *)

offText == <<retVars, lifeVars, probeVars, partVars, viewVars, cacheVars, tagVars,
            wipeVars,
             confVars, iterVars>>

\* tag.rs: Tags::next; rc is the return of blkid_tag_next, k and v the buffers
Tags_next(rc, k, v) ==
    IF rc = 0
    THEN LET name == from_utf8_lossy(k)
             letters == \A i \in 1..Len(name) :
                            name[i] \in (65..90) \cup (97..122) \cup {95}
             chars == [i \in 1..Len(name) |->
                           IF name[i] = 95 THEN "_"
                           ELSE IF name[i] <= 90 THEN Alphabet.upper[name[i] - 64]
                           ELSE Alphabet.lower[name[i] - 96]]
             type == IF letters THEN TagType_from(chars)
                     ELSE [kind |-> "Unknown", tag |-> <<>>, name |-> <<>>]
         IN  [tag |-> "Some",
              name |-> IF type.kind = "Unknown" THEN [type EXCEPT !.name = name]
                       ELSE type,
              value |-> from_utf8_lossy(v)]
    ELSE [tag |-> "None", name |-> NoTag, value |-> <<>>]

\* partition.rs, part_table.rs: Partition::name, typ_string and uuid and
\* PartTable::get_id; ptr is the pointer the native getter returns, b its buffer
Option_to_string_lossy(ptr, b) ==
    IF ptr = NULL THEN [tag |-> "None", text |-> <<>>]
    ELSE [tag |-> "Some", text |-> CStr_to_string_lossy(b).text]

InitText ==
    /\ RetIdle /\ IterIdle /\ LifeIdle /\ ProbeIdle /\ PartIdle
    /\ ViewIdle /\ CacheIdle /\ TagIdle
    /\ pvals \in {<<e>> : e \in Entries}
    /\ vfailAt \in {-2, 0}
    /\ vimpl = "none" /\ vpc = "idle" /\ numof_values = 0 /\ vi = 0
    /\ map = <<>> /\ gvm_ret = NoRet /\ vcalls = <<>>
    /\ TextIdle

\* Prober::get_value(0)
TextGetValue ==
    /\ conv = NoConv
    /\ LET r == Prober_get_value(0)
       IN  conv' = [op |-> "Prober::get_value", native |-> NativeGetValue(0) = 0,
                    res |-> r.res, name |-> NoTag,
                    texts |-> IF r.res.tag = "Ok" THEN <<r.name, r.data>> ELSE <<>>]
    /\ UNCHANGED <<gtype, valsVars, offText>>

\* Prober::lookup_value and Cache::find_tag_value once the native call has
\* returned the value's buffer
TextStrict ==
    /\ conv = NoConv
    /\ vfailAt = -2
    /\ \E op \in {"Prober::lookup_value", "Cache::find_tag_value"} :
           LET r == CStr_to_str(pvals[1].data)
           IN  conv' = [op |-> op, native |-> TRUE,
                        res |-> IF r.tag = "Err" THEN Err("Utf8") ELSE Ok("String", ""),
                        name |-> NoTag,
                        texts |-> IF r.tag = "Err" THEN <<>> ELSE <<r.text>>]
    /\ UNCHANGED <<gtype, valsVars, offText>>

\* Tags::next
TextTagsNext ==
    /\ conv = NoConv
    /\ LET item == Tags_next(IF vfailAt = -2 THEN 0 ELSE -1,
                             pvals[1].name, pvals[1].data)
       IN  conv' = [op |-> "Tags::next", native |-> item.tag = "Some",
                    res |-> Ok(item.tag, ""), name |-> item.name,
                    texts |-> IF item.tag = "Some" THEN <<item.value>> ELSE <<>>]
    /\ UNCHANGED <<gtype, valsVars, offText>>

\* Partition::name, Partition::uuid, Partition::typ_string, PartTable::get_id
TextOptional ==
    /\ conv = NoConv
    /\ \E op \in {"Partition::name", "Partition::uuid", "Partition::typ_string",
                  "PartTable::get_id"} :
           LET r == Option_to_string_lossy(IF vfailAt = -2 THEN 1 ELSE NULL,
                                           pvals[1].data)
           IN  conv' = [op |-> op, native |-> r.tag = "Some",
                        res |-> Ok(r.tag, ""), name |-> NoTag,
                        texts |-> IF r.tag = "Some" THEN <<r.text>> ELSE <<>>]
    /\ UNCHANGED <<gtype, valsVars, offText>>

\* The caller takes the result; the next call meets other buffers.
TextTaken ==
    /\ conv # NoConv
    /\ conv' = NoConv
    /\ pvals' \in {<<e>> : e \in Entries}
    /\ vfailAt' \in {-2, 0}
    /\ UNCHANGED <<gtype, vimpl, vpc, numof_values, vi, map, gvm_ret, vcalls, offText>>

NextText == TextGetValue \/ TextStrict \/ TextTagsNext \/ TextOptional \/ TextTaken

SpecText == InitText /\ [][NextText]_vars

\* C17 (as claimed): every string returned from a foreign buffer by
\* Prober::get_value, Prober::lookup_value, Cache::find_tag_value, Tags::next,
\* Partition::name, uuid and typ_string and PartTable::get_id comes from a
\* conversion that returns an explicit error when the bytes are not valid
\* text; no returned string holds a replacement character (U+FFFD, 65533)
\* put in place of invalid bytes.
C17_ExplicitEncodingError ==
    LET used == IF conv.op \in {"Prober::get_value", "Tags::next"}
                THEN {pvals[1].name, pvals[1].data}
                ELSE {pvals[1].data}
        returned == {conv.texts[i] : i \in 1..Len(conv.texts)}
                    \cup (IF conv.name.kind = "Unknown" THEN {conv.name.name} ELSE {})
    IN  (conv.op # "none" /\ conv.native) =>
            /\ (\E b \in used : ~Utf8Valid(b)) => conv.res = Err("Utf8")
            /\ \A t \in returned : \A i \in 1..Len(t) : t[i] # 65533


----------------------------------------------------------------------------
(* Specification SpecType: PartTable::get_type on the buffer the native     *)
(* blkid_parttable_get_type returns.                                        *)

\* enum PartitionTableType: the identifiers of the unit variants
PartitionTableType ==
    {<<"A","i","x">>,
     <<"A","t","a","r","i">>,
     <<"B","s","d">>,
     <<"D","o","s">>,
     <<"G","p","t">>,
     <<"M","a","c">>,
     <<"M","i","n","i","x">>,
     <<"S","g","i">>,
     <<"S","o","l","a","r","i","s">>,
     <<"S","u","n">>,
     <<"U","l","t","r","i","x">>,
     <<"U","n","i","x","w","a","r","e">>}

\* strum's serialize_all = "lowercase", as code points
to_lowercase(ident) ==
    LET Index(c) == CHOOSE i \in 1..26 : Alphabet.lower[i] = c \/ Alphabet.upper[i] = c
    IN  [i \in 1..Len(ident) |-> 96 + Index(ident[i])]

\* EnumString without the default variant: a name of no variant is an error
PartitionTableType_from_str_no_default(text) ==
    LET hit == {v \in PartitionTableType : to_lowercase(v) = text}
    IN  IF hit = {} THEN [tag |-> "Err", kind |-> "VariantNotFound", name |-> <<>>]
        ELSE [tag |-> "Ok", kind |-> CHOOSE v \in hit : TRUE, name |-> <<>>]

\* PartitionTableType::from_str: the variant whose lowercase name is the text,
\* compared exactly, else the default variant Unknown with the text
PartitionTableType_from_str(text) ==
    LET hit == {v \in PartitionTableType : to_lowercase(v) = text}
    IN  IF hit = {} THEN [tag |-> "Ok", kind |-> <<"U","n","k","n","o","w","n">>,
                          name |-> text]
        ELSE [tag |-> "Ok", kind |-> CHOOSE v \in hit : TRUE, name |-> <<>>]

\* PartTable::get_type; ptr is the pointer the native getter returns, b its buffer
PartTable_get_type(ptr, b) ==
    IF ptr = NULL THEN [tag |-> "None", type |-> <<>>]
    ELSE LET part_table_type == PartitionTableType_from_str(CStr_to_string_lossy(b).text)
         IN  IF part_table_type.tag = "Err" THEN [tag |-> "Panic", type |-> <<>>]
             ELSE [tag |-> "Some", type |-> part_table_type]

\* The buffers the native getter may point to: the lowercase name of every
\* variant, the same capitalised, in upper case and followed by one more byte,
\* and buffers naming no variant, one of them not valid UTF-8.
TypeBuffers ==
    LET lower == {to_lowercase(v) : v \in PartitionTableType}
    IN  lower
        \cup {[b EXCEPT ![1] = @ - 32] : b \in lower}
        \cup {[i \in 1..Len(b) |-> b[i] - 32] : b \in lower}
        \cup {Append(b, 120) : b \in lower}
        \cup {<<>>, <<101, 120, 116, 52>>, <<195, 169>>, <<103, 112, 116, 255>>, <<255>>}

InitType ==
    /\ RetIdle /\ IterIdle /\ LifeIdle /\ ProbeIdle /\ PartIdle
    /\ ValsIdle /\ ViewIdle /\ CacheIdle /\ TagIdle
    /\ conv = NoConv
    /\ \E b \in TypeBuffers, ptr \in {NULL, 1} :
           /\ ptr = NULL => b = <<>>
           /\ gtype = [NoType EXCEPT !.pc = "call", !.ptr = ptr, !.buf = b]

GetType ==
    /\ gtype.pc = "call"
    /\ gtype' = [gtype EXCEPT !.pc = "done",
                              !.res = PartTable_get_type(gtype.ptr, gtype.buf)]
    /\ UNCHANGED <<conv, valsVars, offText>>

\* The caller takes the result; the next call meets another partition table.
TypeTaken ==
    /\ gtype.pc = "done"
    /\ \E b \in TypeBuffers, ptr \in {NULL, 1} :
           /\ ptr = NULL => b = <<>>
           /\ gtype' = [NoType EXCEPT !.pc = "call", !.ptr = ptr, !.buf = b]
    /\ UNCHANGED <<conv, valsVars, offText>>

NextType == GetType \/ TypeTaken

SpecType == InitType /\ [][NextType]_vars

\* C27: PartTable::get_type never panics; it returns None iff the native type
\* pointer is null, the matching PartitionTableType variant when the type
\* string is one of the twelve lowercase names aix, atari, bsd, dos, gpt, mac,
\* minix, sgi, solaris, sun, ultrix and unixware, and for every other string s
\* Unknown(s), carrying s as it is.
C27_GetType ==
    LET Known == {[v |-> <<"A","i","x">>, text |-> <<97, 105, 120>>],
               [v |-> <<"A","t","a","r","i">>, text |-> <<97, 116, 97, 114, 105>>],
               [v |-> <<"B","s","d">>, text |-> <<98, 115, 100>>],
               [v |-> <<"D","o","s">>, text |-> <<100, 111, 115>>],
               [v |-> <<"G","p","t">>, text |-> <<103, 112, 116>>],
               [v |-> <<"M","a","c">>, text |-> <<109, 97, 99>>],
               [v |-> <<"M","i","n","i","x">>, text |-> <<109, 105, 110, 105, 120>>],
               [v |-> <<"S","g","i">>, text |-> <<115, 103, 105>>],
               [v |-> <<"S","o","l","a","r","i","s">>, text |-> <<115, 111, 108, 97, 114, 105, 115>>],
               [v |-> <<"S","u","n">>, text |-> <<115, 117, 110>>],
               [v |-> <<"U","l","t","r","i","x">>, text |-> <<117, 108, 116, 114, 105, 120>>],
               [v |-> <<"U","n","i","x","w","a","r","e">>, text |-> <<117, 110, 105, 120, 119, 97, 114, 101>>]}
        r == gtype.res
        named == {k \in Known : k.text = gtype.buf}
    IN  gtype.pc = "done" =>
            /\ r.tag # "Panic"
            /\ r.tag = "None" <=> gtype.ptr = NULL
            /\ gtype.ptr # NULL => r.tag = "Some"
            /\ (gtype.ptr # NULL /\ named # {}) =>
                   \A k \in named : r.type.kind = k.v /\ r.type.name = <<>>
            /\ (gtype.ptr # NULL /\ named = {}) =>
                   /\ r.type.kind = <<"U","n","k","n","o","w","n">>
                   /\ r.type.name = from_utf8_lossy(gtype.buf)
                   /\ Utf8Valid(gtype.buf) /\ (\A i \in 1..Len(gtype.buf) : gtype.buf[i] < 128)
                          => r.type.name = gtype.buf

C27_Witness ==
    /\ gtype.pc = "done"
    /\ gtype.ptr # NULL
    /\ gtype.buf = <<68, 79, 83>>
    /\ gtype.res.tag = "Some"
    /\ gtype.res.type.kind = <<"U","n","k","n","o","w","n">>
    /\ gtype.res.type.name = <<68, 79, 83>>
----------------------------------------------------------------------------
(* Specification SpecWipe: do_wipe and step_back on one Prober, and the     *)
(* loop `while do_probe() == Success { do_wipe(false).unwrap() }` run on a  *)
(* Prober whose probing is at its start.  The loop's steps are taken under  *)
(* weak fairness: it is sequential code, and each native call returns.      *)

offWipe == <<retVars, lifeVars, partVars, valsVars, viewVars, cacheVars,
             tagVars, textVars, confVars, iterVars>>

\* blkid_do_wipe and blkid_probe_step_back need a current probing chain
NativeStepBack(io) == IF io /\ pos > 0 THEN 0 ELSE -1

\* what Prober::do_wipe does to the probe: the current signature is erased
\* from the device, or on a dry run hidden in the buffers only, and the
\* position moves one step back
Wiped(io, dry_run) ==
    LET rc == NativeStepBack(io)
    IN  /\ last' = Did("do_wipe", Prober_do_wipe(rc), io)
        /\ sigs' = IF rc = 0 /\ ~dry_run THEN sigs \ values ELSE sigs
        /\ hidden' = IF rc = 0 /\ dry_run THEN hidden \cup values ELSE hidden
        /\ pos' = IF rc = 0 THEN pos - 1 ELSE pos
        /\ run' = <<>>
        /\ clean' = FALSE
        /\ UNCHANGED <<enabled, values, safeOk>>

\* Prober::do_wipe
DoWipe ==
    \E io, dry_run \in BOOLEAN :
        Wiped(io, dry_run) /\ UNCHANGED <<wl, offWipe>>

\* Prober::step_back
StepBack ==
    \E io \in BOOLEAN :
        LET rc == NativeStepBack(io)
        IN  /\ last' = Did("step_back", Prober_step_back(rc), io)
            /\ pos' = IF rc = 0 THEN pos - 1 ELSE pos
            /\ run' = <<>>
            /\ clean' = FALSE
            /\ UNCHANGED <<sigs, enabled, values, safeOk, offProbe>>

\* the caller enters the loop with the probing at its start and the buffers
\* as read from the device
WipeLoopStart ==
    /\ wl = "none"
    /\ pos = 0 /\ values = {} /\ hidden = {}
    /\ wl' = "probe"
    /\ UNCHANGED <<probeVars, hidden, offWipe>>

\* one step of the loop: the condition, or the body
WipeLoop ==
    \/ /\ wl = "probe"
       /\ \E io \in BOOLEAN : Probed(io)
       /\ wl' = CASE last'.res = Ok("ProbeState", "Success") -> "wipe"
                  [] last'.res = Ok("ProbeState", "Done")    -> "done"
                  [] OTHER                                   -> "failed"
       /\ UNCHANGED <<hidden, offWipe>>
    \/ /\ wl = "wipe"
       /\ \E io \in BOOLEAN : Wiped(io, FALSE)
       /\ wl' = IF last'.res.tag = "Ok" THEN "probe" ELSE "failed"
       /\ UNCHANGED offWipe

\* a Prober before its first probing, with the partitions chain enabled or not
InitWipe ==
    /\ sigs \in SUBSET Funcs
    /\ enabled \in {{"superblocks"}, Chains}
    /\ pos = 0
    /\ values = {}
    /\ last = [op |-> "new", res |-> NoRet, from |-> 0, prev |-> "none", io |-> TRUE]
    /\ run = <<>>
    /\ clean = FALSE
    /\ safeOk = 0
    /\ RetIdle /\ LifeIdle /\ PartIdle /\ RestIdle /\ WipeIdle /\ ConfIdle

NextWipe ==
    \/ wl = "none" /\ DoProbe
    \/ wl = "none" /\ DoWipe
    \/ wl = "none" /\ StepBack
    \/ WipeLoopStart
    \/ WipeLoop

SpecWipe == InitWipe /\ [][NextWipe]_vars /\ WF_vars(WipeLoop)

----------------------------------------------------------------------------
(* Specification SpecConf: the settings of one Prober (assigned device,     *)
(* chain flags, chain filters) next to its probing.  A chain filter is the  *)
(* set of the chain's probing functions it excludes.                        *)

MaxFlags == 1

offConf == <<retVars, lifeVars, partVars, valsVars, viewVars, cacheVars,
             tagVars, textVars, iterVars>>

\* the signatures an assigned probing area may hold
AreaSigs == {{1, 3}, {2, NFuncs}}

\* c_result(..).map(|_| ()) on the return code of a setter
Setter(ret_code) == MapOk(c_result_int(ret_code), "Unit", "")

\* the position after a call that touches a chain filter: probing starts from
\* scratch
PositionKept(rc) == pos

Touched(rc) == IF rc = 0 THEN 0 ELSE pos

InitConf ==
    /\ device \in {NoDevice, [fd |-> 3, offset |-> 0, size |-> 0]}
    /\ sigs \in (IF device = NoDevice THEN {{}} ELSE AreaSigs)
    /\ chflags = [c \in Chains |-> 0]
    /\ filter = [c \in Chains |-> {}]
    /\ enabled \in {{"superblocks"}, Chains}
    /\ pos = 0
    /\ values = {}
    /\ last = [op |-> "new", res |-> NoRet, from |-> 0, prev |-> "none", io |-> TRUE]
    /\ run = <<>>
    /\ clean = FALSE
    /\ safeOk = 0
    /\ hidden = {} /\ wl = "none"
    /\ RetIdle /\ LifeIdle /\ PartIdle /\ RestIdle

\* Prober::set_device
SetDevice ==
    \E fd \in {4}, size \in {0, 1}, io \in BOOLEAN :
        LET rc == IF io THEN 0 ELSE -1
        IN  /\ last' = Did("set_device", Setter(rc), io)
            /\ IF rc = 0
               THEN /\ device' = [fd |-> fd, offset |-> 0, size |-> size]
                    /\ sigs' \in AreaSigs
                    /\ hidden' = {}
                    /\ pos' = 0
                    /\ values' = {}
                    /\ run' = <<>>
               ELSE UNCHANGED <<device, sigs, hidden, pos, values, run>>
            /\ clean' = FALSE
            /\ UNCHANGED <<enabled, safeOk, chflags, filter, wl, offConf>>

\* Prober::set_superblocks_flags / Prober::set_partitions_flags
SetFlags ==
    \E c \in Chains, bits \in 0..MaxFlags, io \in BOOLEAN :
        LET rc == IF io THEN 0 ELSE -1
        IN  /\ last' = Did("set_" \o c \o "_flags", Setter(rc), io)
            /\ chflags' = IF rc = 0 THEN [chflags EXCEPT ![c] = bits] ELSE chflags
            /\ clean' = FALSE
            /\ UNCHANGED <<sigs, enabled, pos, values, run, safeOk, device, filter,
                           wipeVars, offConf>>

\* the chain's probing functions
ChainFuncs(c) == {f \in Funcs : Chain(f) = c}

\* Prober::invert_superblocks_filter / Prober::invert_partitions_filter
InvertFilter ==
    \E c \in Chains, io \in BOOLEAN :
        LET rc == IF io THEN 0 ELSE -1
        IN  /\ last' = Did("invert_" \o c \o "_filter", Setter(rc), io)
            /\ filter' = IF rc = 0
                         THEN [filter EXCEPT ![c] = ChainFuncs(c) \ filter[c]]
                         ELSE filter
            /\ pos' = Touched(rc)
            /\ run' = <<>>
            /\ clean' = FALSE
            /\ UNCHANGED <<sigs, enabled, values, safeOk, device, chflags,
                           wipeVars, offConf>>

\* Prober::reset_superblocks_filter / Prober::reset_partitions_filter
ResetFilter ==
    \E c \in Chains, io \in BOOLEAN :
        LET rc == IF io THEN 0 ELSE -1
        IN  /\ last' = Did("reset_" \o c \o "_filter", Setter(rc), io)
            /\ filter' = IF rc = 0 THEN [filter EXCEPT ![c] = {}] ELSE filter
            /\ pos' = Touched(rc)
            /\ run' = <<>>
            /\ clean' = FALSE
            /\ UNCHANGED <<sigs, enabled, values, safeOk, device, chflags,
                           wipeVars, offConf>>

NextConf ==
    \/ DoProbe
    \/ ResetProbe
    \/ SetDevice
    \/ SetFlags
    \/ InvertFilter
    \/ ResetFilter

SpecConf == InitConf /\ [][NextConf]_vars

\* C21: Prober::reset_probe clears the probing results (no value is left) and
\* puts the probing position at the start; the assigned device, the enabled
\* chains, the chain flags and the chain filters are as before the call.
C21_ResetProbe ==
    [][last'.op = "reset_probe" =>
           /\ Cardinality(values') = 0
           /\ pos' = 0
           /\ UNCHANGED <<device, enabled, chflags, filter>>]_vars

C21_Witness ==
    /\ last.op = "reset_probe" /\ last.prev = "do_probe" /\ last.from = 3
    /\ pos = 0 /\ values = {}
    /\ device = [fd |-> 4, offset |-> 0, size |-> 1]
    /\ "partitions" \in enabled
    /\ chflags["superblocks"] = 1
    /\ filter["partitions"] # {}

\* C22: whenever invert_superblocks_filter, reset_superblocks_filter,
\* invert_partitions_filter or reset_partitions_filter changes a chain filter,
\* the probing position is reset: the next do_probe starts from the first
\* probing function, also when the call comes in the middle of a do_probe loop.
C22_FilterResetsPosition ==
    [][(filter' # filter) =>
           /\ last'.op \in {"invert_superblocks_filter", "reset_superblocks_filter",
                            "invert_partitions_filter", "reset_partitions_filter"}
           /\ pos' = 0
           /\ NextFunc' = (IF Detected' = {} THEN 0 ELSE Min(Detected'))]_vars

C22_Witness ==
    /\ last.op = "invert_superblocks_filter" /\ last.prev = "do_probe"
    /\ last.from = 1 /\ sigs = {1, 3}
    /\ pos = 0
    /\ filter["superblocks"] = {f \in Funcs : Chain(f) = "superblocks"}

----------------------------------------------------------------------------
(* Specification SpecIter: a for loop over a Devs or a Tags iterator.  The  *)
(* cache's devices are `entries`, the device's tags the (name, value)       *)
(* buffers `pvals`; nothing changes the cache during the loop.  The loop    *)
(* calls next until it returns None; its steps are weakly fair.            *)

\* blkid_dev_next / blkid_tag_next on a list of n items: 0 and the next item,
\* or non-zero at the end of the list
NativeNext(n) == IF iteration.cursor < n THEN 0 ELSE -1

InitIter ==
    /\ RetIdle /\ LifeIdle /\ ProbeIdle /\ PartIdle
    /\ ViewIdle /\ TagIdle /\ TextIdle
    /\ scall = NoCall
    /\ vfailAt = -2 /\ vimpl = "none" /\ vpc = "idle" /\ numof_values = 0 /\ vi = 0
    /\ map = <<>> /\ gvm_ret = NoRet /\ vcalls = <<>>
    /\ \/ /\ iteration = [NoIteration EXCEPT !.kind = "Devs"]
          /\ entries \in NoDupSeqs({p \in Paths : ~HasNul(p)})
          /\ pvals = <<>>
       \/ /\ iteration = [NoIteration EXCEPT !.kind = "Tags"]
          /\ entries = <<>>
          /\ pvals \in SeqsUpTo({[name |-> <<84, 89, 80, 69>>, data |-> <<255>>],
                                   [name |-> <<85, 85, 73, 68>>, data |-> <<49>>],
                                   [name |-> <<255>>, data |-> <<195, 169>>]}, MaxVals)

\* Devs::next, called by the for loop
DevsIterNext ==
    /\ iteration.kind = "Devs" /\ iteration.item # "None"
    /\ LET rc == NativeNext(Len(entries))
           d == IF rc = 0 THEN entries[iteration.cursor + 1] ELSE ""
           r == Devs_next(rc)
       IN  iteration' = [kind |-> "Devs",
                         cursor |-> IF rc = 0 THEN iteration.cursor + 1
                                    ELSE iteration.cursor,
                         items |-> IF r.val = "Some" THEN Append(iteration.items, d)
                                   ELSE iteration.items,
                         item |-> r.val]
    /\ UNCHANGED <<retVars, lifeVars, probeVars, partVars, valsVars, viewVars,
                   cacheVars, tagVars, textVars, wipeVars, confVars>>

\* Tags::next, called by the for loop
TagsIterNext ==
    /\ iteration.kind = "Tags" /\ iteration.item # "None"
    /\ LET rc == NativeNext(Len(pvals))
           kv == IF rc = 0 THEN pvals[iteration.cursor + 1]
                 ELSE [name |-> <<>>, data |-> <<>>]
           r == Tags_next(rc, kv.name, kv.data)
       IN  iteration' = [kind |-> "Tags",
                         cursor |-> IF rc = 0 THEN iteration.cursor + 1
                                    ELSE iteration.cursor,
                         items |-> IF r.tag = "Some"
                                   THEN Append(iteration.items,
                                               [name |-> r.name, value |-> r.value])
                                   ELSE iteration.items,
                         item |-> r.tag]
    /\ UNCHANGED <<retVars, lifeVars, probeVars, partVars, valsVars, viewVars,
                   cacheVars, tagVars, textVars, wipeVars, confVars>>

NextIter == DevsIterNext \/ TagsIterNext

SpecIter == InitIter /\ [][NextIter]_vars /\ WF_vars(NextIter)

\* C23: Devs::next and Tags::next return Some(item) for each call on which
\* the native next function returns 0 and None on the first call on which it
\* does not; over a cache with n devices (a device with n tags) that nothing
\* changes, the iterator yields exactly n items, each device (tag) exactly
\* once, and then None, so a for loop over it terminates.
C23_IterationYieldsAll ==
    /\ [][iteration'.item =
              (IF iteration.cursor < (IF iteration.kind = "Devs" THEN Len(entries)
                                      ELSE Len(pvals))
               THEN "Some" ELSE "None")]_vars
    /\ [](LET n == IF iteration.kind = "Devs" THEN Len(entries) ELSE Len(pvals)
              it == iteration
          IN  /\ Len(it.items) = it.cursor
              /\ it.cursor <= n
              /\ it.item = "Some" => it.cursor >= 1
              /\ it.item = "None" => it.cursor = n
              /\ it.kind = "Devs" =>
                     \A i \in 1..Len(it.items) : it.items[i] = entries[i]
              /\ it.kind = "Tags" =>
                     \A i \in 1..Len(it.items) :
                         it.items[i].value = from_utf8_lossy(pvals[i].data))
    /\ <>(iteration.item = "None")

C23_Witness ==
    /\ iteration.kind = "Devs"
    /\ iteration.item = "None"
    /\ Len(iteration.items) = 2
    /\ iteration.items = entries

====
